---- MODULE Spec2Model ----
(***************************************************************************)
(* A model of yourdfpy's URDF class (src/src/yourdfpy/urdf.py): the        *)
(* configuration vector and forward kinematics (get_default_cfg,           *)
(* update_cfg, _forward_kinematics_joint), base-link determination, the    *)
(* subtree splitter (split_along_joints) and the XML codec.                *)
(*                                                                         *)
(* Python values are represented as follows.                               *)
(*   Optional[T]   : <<>> is None, <<x>> is the present value x            *)
(*   float         : an integer; the inputs are chosen so that every       *)
(*                   0.5 * x of the code is taken of an even x             *)
(*   exception     : the name of the exception class, NoExc when the call  *)
(*                   returned normally                                     *)
(*   ndarray slot  : Float(x) for a number, PyList(s) for a Python list    *)
(*                   held by an array of dtype object                      *)
(***************************************************************************)
EXTENDS Integers, Sequences, FiniteSets, TLC

VARIABLES
    robot,      \* self.robot, the Document Model handed to URDF.__init__
    build,      \* the installed libraries: what numpy and trimesh do where the code leaves it open
    ctor_exc,   \* the exception URDF.__init__ raised, NoExc when the object exists
    cfg,        \* self._cfg
    base_link,  \* self._base_link
    scene,      \* self._scene.graph: (frame_from, frame_to) -> matrix
    op,         \* the last method called on the object
    arg,        \* its argument
    exc,        \* the exception it raised, or NoExc
    ret,        \* the value it returned
    ncalls,     \* the number of update_cfg calls made so far
    xml,        \* the root element of the document the object was loaded from, or None
    _errors,    \* self._errors
    last_default, \* what the previous get_default_cfg call returned (line 422 makes the first)
    pc          \* where a call made statement by statement stands, Idle between calls

vars == <<robot, build, ctor_exc, cfg, base_link, scene, op, arg, exc, ret, ncalls, xml,
          _errors, last_default, pc>>

-----------------------------------------------------------------------------
(* Python values *)

None == <<>>
Some(x) == <<x>>
NoExc == "none"

\* no call is in progress
Idle == [at |-> "idle"]

Float(x) == [k |-> "float", v |-> <<x>>]
PyList(s) == [k |-> "list", v |-> s]

\* list.index(x): the first position holding x, 0 when there is none (ValueError)
RECURSIVE IndexFrom(_, _, _)
IndexFrom(s, x, i) ==
    IF i > Len(s) THEN 0
    ELSE IF s[i] = x THEN i
    ELSE IndexFrom(s, x, i + 1)

Index(s, x) == IndexFrom(s, x, 1)

\* 0.5 * x
Half(x) == x \div 2

-----------------------------------------------------------------------------
(* Bounds and input sets *)

MaxJoints == 3

\* names JName(0) .. ; a robot of n joints uses JName(1) .. JName(n)
JNames == <<"j0", "j1", "j2", "j3", "j4", "j5", "j6">>
JName(i) == JNames[i + 1]

\* link names; a chain of n joints uses LName(0) .. LName(n)
LNames == <<"A", "B", "C", "D", "E", "F">>
LName(i) == LNames[i + 1]

\* Limit (lines 144-149) and Mimic (lines 47-51) values of the drawn joints
LimitA == [effort |-> Some(1), velocity |-> Some(1), lower |-> Some(2), upper |-> Some(6)]
LimitB == [effort |-> Some(1), velocity |-> Some(1), lower |-> Some(-4), upper |-> Some(2)]

\* The shapes a drawn joint takes: its type, its limit, and whether it mimics
\* the joint declared after it ("next") or before it ("prev").  A mimic of
\* the last joint's "next" or of the first joint's "prev" names no joint.
JointShapes ==
    { [type |-> "revolute",   limit |-> Some(LimitA), rel |-> "none", multiplier |-> 1, offset |-> 0],
      [type |-> "prismatic",  limit |-> Some(LimitB), rel |-> "none", multiplier |-> 1, offset |-> 0],
      [type |-> "revolute",   limit |-> None,         rel |-> "none", multiplier |-> 1, offset |-> 0],
      [type |-> "fixed",      limit |-> None,         rel |-> "none", multiplier |-> 1, offset |-> 0],
      [type |-> "floating",   limit |-> None,         rel |-> "none", multiplier |-> 1, offset |-> 0],
      [type |-> "revolute",   limit |-> Some(LimitA), rel |-> "next", multiplier |-> 2, offset |-> 1],
      [type |-> "continuous", limit |-> None,         rel |-> "prev", multiplier |-> 3, offset |-> -1] }

\* Joint (lines 152-164) number i of a chain, of shape s
MkJoint(i, s) ==
    [ name   |-> JName(i),
      type   |-> s.type,
      parent |-> LName(i - 1),
      child  |-> LName(i),
      origin |-> None,
      limit  |-> s.limit,
      mimic  |-> IF s.rel = "none" THEN None
                 ELSE Some([ joint      |-> JName(IF s.rel = "next" THEN i + 1 ELSE i - 1),
                             multiplier |-> s.multiplier,
                             offset     |-> s.offset ]) ]

\* Link (lines 130-135)
MkLink(i) == [name |-> LName(i)]

\* Robot (lines 167-173): a chain of n joints over n + 1 links
ChainRobots ==
    UNION { { [ name   |-> "r",
                links  |-> [i \in 1..(n + 1) |-> MkLink(i - 1)],
                joints |-> [i \in 1..n |-> MkJoint(i, shapes[i])] ]
              : shapes \in [1..n -> JointShapes] }
            : n \in 0..MaxJoints }

\* What the installed libraries do where the code's behaviour depends on them:
\*   np_ragged      np.array of a nested list whose inner lists differ in length
\*                  (line 936): "error" raises ValueError (numpy >= 1.24), "object"
\*                  gives an array of dtype object holding the lists (older numpy,
\*                  the deprecation the TODO of line 935 quotes)
\*   tra_list_angle tra.rotation_matrix handed a list as the angle (line 745):
\*                  "raise" (TypeError) or "accept"
Builds == [np_ragged : {"error", "object"}, tra_list_angle : {"raise", "accept"}]

-----------------------------------------------------------------------------
(* URDF: properties and helpers *)

\* joint_names (lines 481-488)
joint_names(rb) == [i \in 1..Len(rb.joints) |-> rb.joints[i].name]

\* _update_actuated_joints (lines 604-611): the indices of the actuated joints, in order
RECURSIVE ActuatedFrom(_, _)
ActuatedFrom(joints, i) ==
    IF i > Len(joints) THEN <<>>
    ELSE IF joints[i].mimic = None /\ joints[i].type # "fixed"
         THEN <<i>> \o ActuatedFrom(joints, i + 1)
         ELSE ActuatedFrom(joints, i + 1)

_update_actuated_joints(rb) == ActuatedFrom(rb.joints, 1)

\* num_actuated_joints (lines 517-524)
num_actuated_joints(rb) == Len(_update_actuated_joints(rb))

Zeros(n) == [i \in 1..n |-> 0]

-----------------------------------------------------------------------------
(* get_default_cfg (lines 904-936) *)

\* JointDefault with the lower limit in place of the midpoint of line 917
JointDefaultLower(j, cur) ==
    IF j.mimic # None THEN [exc |-> NoExc, cfg |-> <<0>>]
    ELSE IF (j.type = "revolute" \/ j.type = "prismatic") /\ j.limit # None THEN
        IF j.limit[1].lower = None \/ j.limit[1].upper = None
        THEN [exc |-> "TypeError", cfg |-> <<>>]
        ELSE [exc |-> NoExc, cfg |-> <<j.limit[1].lower[1]>>]
    ELSE IF j.type = "floating" THEN [exc |-> NoExc, cfg |-> Zeros(6)]
    ELSE IF j.type = "planar" THEN [exc |-> NoExc, cfg |-> Zeros(2)]
    ELSE [exc |-> NoExc, cfg |-> <<0>>]

\* lines 913-925: the list one joint contributes; cur is what the local
\* variable cfg is bound to when the joint's type matches no branch
JointDefault(j, cur) ==
    IF j.mimic # None THEN [exc |-> NoExc, cfg |-> <<0>>]
    ELSE IF j.type = "revolute" \/ j.type = "prismatic" THEN
        IF j.limit # None THEN
            LET l == j.limit[1] IN
            IF l.lower = None \/ l.upper = None
            THEN [exc |-> "TypeError", cfg |-> <<>>]
            ELSE [exc |-> NoExc,
                  cfg |-> <<l.lower[1] + Half(l.upper[1] - l.lower[1])>>]
        ELSE [exc |-> NoExc, cfg |-> <<0>>]
    ELSE IF j.type = "continuous" \/ j.type = "fixed" THEN [exc |-> NoExc, cfg |-> <<0>>]
    ELSE IF j.type = "floating" THEN [exc |-> NoExc, cfg |-> Zeros(6)]
    ELSE IF j.type = "planar" THEN [exc |-> NoExc, cfg |-> Zeros(2)]
    ELSE IF cur = None THEN [exc |-> "UnboundLocalError", cfg |-> <<>>]
    ELSE [exc |-> NoExc, cfg |-> cur[1]]

\* lines 912-928
RECURSIVE ConfigLoop(_, _, _, _)
ConfigLoop(joints, i, config, cur) ==
    IF i > Len(joints) THEN [exc |-> NoExc, config |-> config]
    ELSE LET Add(r) ==
                 IF r.exc # NoExc THEN [exc |-> r.exc, config |-> config]
                 ELSE ConfigLoop(joints, i + 1, Append(config, r.cfg), Some(r.cfg))
         IN Add(JointDefault(joints[i], cur))

\* line 933 (and lines 739-742) with the fields of one mimic joint
MimicValue(m, target) == target * m.multiplier + m.offset

\* lines 930-933: one pass over the joints in declaration order, in place
RECURSIVE MimicLoop(_, _, _)
MimicLoop(joints, i, config) ==
    IF i > Len(joints) THEN [exc |-> NoExc, config |-> config]
    ELSE IF joints[i].mimic = None THEN MimicLoop(joints, i + 1, config)
    ELSE LET m == joints[i].mimic[1]
             At(index) ==
                 IF index = 0 THEN [exc |-> "ValueError", config |-> config]
                 ELSE MimicLoop(joints, i + 1,
                          [config EXCEPT ![i] = [@ EXCEPT ![1] = MimicValue(m, config[index][1])]])
         IN At(Index([k \in 1..Len(joints) |-> joints[k].name], m.joint))

RECURSIVE Concat(_)
Concat(ss) == IF ss = <<>> THEN <<>> ELSE Head(ss) \o Concat(Tail(ss))

IsRagged(config) == \E i, k \in 1..Len(config) : Len(config[i]) # Len(config[k])

\* np.array(config).flatten() (line 936)
NpArrayFlatten(config, bld) ==
    IF ~IsRagged(config) THEN
        LET Array(flat) == [exc |-> NoExc, value |-> [i \in 1..Len(flat) |-> Float(flat[i])]]
        IN Array(Concat(config))
    ELSE IF bld.np_ragged = "error" THEN [exc |-> "ValueError", value |-> <<>>]
    ELSE [exc |-> NoExc, value |-> [i \in 1..Len(config) |-> PyList(config[i])]]

\* the list config of lines 910-933, before it is turned into an array
DefaultConfig(rb) ==
    LET Mimics(c) == IF c.exc # NoExc THEN c ELSE MimicLoop(rb.joints, 1, c.config)
    IN Mimics(ConfigLoop(rb.joints, 1, <<>>, None))

get_default_cfg(rb, bld) ==
    LET Flatten(c) ==
            IF c.exc # NoExc THEN [exc |-> c.exc, value |-> <<>>]
            ELSE NpArrayFlatten(c.config, bld)
    IN Flatten(DefaultConfig(rb))

-----------------------------------------------------------------------------
(* _forward_kinematics_joint (lines 734-752) *)

\* The 4x4 matrix of lines 744-750, kept symbolic: the joint's origin (None
\* stands for np.eye(4), line 735), the motion composed with it and its
\* parameter.  For a fixed, floating or planar joint the matrix is the origin.
Matrix(origin, motion, q) == [origin |-> origin, motion |-> motion, q |-> q]

\* Returns [exc, matrix, q]; cfgNow is self._cfg when the call is made.
_forward_kinematics_joint(rb, cfgNow, bld, joint, q) ==
    LET failed(e) == [exc |-> e, matrix |-> Matrix(None, "none", None), q |-> q]
        \* lines 744-750
        Transform(q2) ==
            IF joint.type = "revolute" THEN
                IF q2.k = "list" /\ bld.tra_list_angle = "raise" THEN failed("TypeError")
                ELSE [exc |-> NoExc, matrix |-> Matrix(joint.origin, "rotation", Some(q2)), q |-> q2]
            ELSE IF joint.type = "prismatic" \/ joint.type = "continuous" THEN
                [exc |-> NoExc, matrix |-> Matrix(joint.origin, "translation", Some(q2)), q |-> q2]
            ELSE
                [exc |-> NoExc, matrix |-> Matrix(joint.origin, "none", None), q |-> q2]
        \* lines 738-742
        Mimic(mimic_joint_index) ==
            IF mimic_joint_index = 0 THEN failed("ValueError")
            ELSE IF cfgNow[mimic_joint_index].k = "list" THEN failed("TypeError")
            ELSE Transform(Float(MimicValue(joint.mimic[1], cfgNow[mimic_joint_index].v[1])))
    IN
    IF joint.mimic = None THEN Transform(q)
    ELSE Mimic(Index(joint_names(rb), joint.mimic[1].joint))

-----------------------------------------------------------------------------
(* _determine_base_link (lines 716-732) *)

\* list.remove(x): the list without the first x; the caller checks that x is in it
RemoveFirst(s, x) ==
    LET k == Index(s, x) IN
    [i \in 1..(Len(s) - 1) |-> IF i < k THEN s[i] ELSE s[i + 1]]

\* RemoveChildren with j.parent in place of j.child
RECURSIVE RemoveParents(_, _, _)
RemoveParents(joints, i, link_names) ==
    IF i > Len(joints) THEN [exc |-> NoExc, link_names |-> link_names]
    ELSE IF Index(link_names, joints[i].parent) = 0
         THEN [exc |-> "ValueError", link_names |-> link_names]
         ELSE RemoveParents(joints, i + 1, RemoveFirst(link_names, joints[i].parent))

\* lines 725-726
RECURSIVE RemoveChildren(_, _, _)
RemoveChildren(joints, i, link_names) ==
    IF i > Len(joints) THEN [exc |-> NoExc, link_names |-> link_names]
    ELSE IF Index(link_names, joints[i].child) = 0
         THEN [exc |-> "ValueError", link_names |-> link_names]
         ELSE RemoveChildren(joints, i + 1, RemoveFirst(link_names, joints[i].child))

\* Returns [exc, value]; value is None or the name of the base link.
_determine_base_link(rb) ==
    LET First(r) ==
            IF r.exc # NoExc THEN [exc |-> r.exc, value |-> None]
            ELSE IF Len(r.link_names) = 0 THEN [exc |-> NoExc, value |-> None]
            ELSE [exc |-> NoExc, value |-> Some(r.link_names[1])]
    IN First(RemoveChildren(rb.joints, 1, [i \in 1..Len(rb.links) |-> rb.links[i].name]))

-----------------------------------------------------------------------------
(* _create_scene (lines 938-956) and URDF.__init__ (lines 392-443) *)

\* graph.update(frame_from, frame_to, matrix) of the scene's transform graph
GraphUpdate(graph, frame_from, frame_to, matrix) ==
    [e \in (DOMAIN graph) \cup {<<frame_from, frame_to>>} |->
        IF e = <<frame_from, frame_to>> THEN matrix ELSE graph[e]]

EmptyGraph == [e \in {} |-> Matrix(None, "none", None)]

\* lines 942-945: zip(self.robot.joints, self._cfg) pairs joint i with slot i
RECURSIVE SceneLoop(_, _, _, _, _)
SceneLoop(rb, cfgNow, bld, i, graph) ==
    IF i > Len(rb.joints) \/ i > Len(cfgNow) THEN [exc |-> NoExc, graph |-> graph]
    ELSE LET j == rb.joints[i]
             Add(fk) ==
                 IF fk.exc # NoExc THEN [exc |-> fk.exc, graph |-> graph]
                 ELSE SceneLoop(rb, cfgNow, bld, i + 1,
                                GraphUpdate(graph, j.parent, j.child, fk.matrix))
         IN Add(_forward_kinematics_joint(rb, cfgNow, bld, j, cfgNow[i]))

_create_scene(rb, cfgNow, bld) == SceneLoop(rb, cfgNow, bld, 1, EmptyGraph)

\* the parameters of URDF.__init__ (lines 392-401)
InitParams ==
    { "robot", "build_scene_graph", "build_collision_scene_graph", "load_meshes",
      "load_collision_meshes", "filename_handler", "mesh_dir" }

\* a keyword argument's value, or the parameter's default
Kw(kwargs, name, default) == IF name \in DOMAIN kwargs THEN kwargs[name] ELSE default

\* URDF(**kwargs): [exc, robot, cfg, base_link, scene]; scene is None or Some(graph).
\* A keyword that is no parameter is a TypeError before the body runs.
__init__(kwargs, bld) ==
    LET failed(e) == [exc |-> e, robot |-> None, cfg |-> <<>>, base_link |-> None, scene |-> None]
        rb == kwargs.robot
        build_scene_graph == Kw(kwargs, "build_scene_graph", TRUE)
        build_collision_scene_graph == Kw(kwargs, "build_collision_scene_graph", FALSE)
        Object(c, b, s, sc) ==
            IF c.exc # NoExc THEN failed(c.exc)
            ELSE IF b.exc # NoExc THEN failed(b.exc)
            ELSE IF s.exc # NoExc THEN failed(s.exc)
            ELSE IF sc.exc # NoExc THEN failed(sc.exc)
            ELSE [ exc       |-> NoExc,
                   robot     |-> Some(rb),
                   cfg       |-> c.value,
                   base_link |-> b.value,
                   scene     |-> IF build_scene_graph THEN Some(s.graph) ELSE None ]
        \* lines 424-443, with self._cfg = c.value
        Body(c) ==
            Object(c,
                   IF build_scene_graph \/ build_collision_scene_graph
                   THEN _determine_base_link(rb)
                   ELSE [exc |-> NoExc, value |-> None],
                   IF build_scene_graph THEN _create_scene(rb, c.value, bld)
                   ELSE [exc |-> NoExc, graph |-> EmptyGraph],
                   IF build_collision_scene_graph THEN _create_scene(rb, c.value, bld)
                   ELSE [exc |-> NoExc, graph |-> EmptyGraph])
    IN
    IF ~(DOMAIN kwargs \subseteq InitParams) THEN failed("TypeError")
    ELSE Body(get_default_cfg(rb, bld))

-----------------------------------------------------------------------------
(* update_cfg (lines 754-803) *)

\* _create_maps (lines 595-602): name -> joint; a later joint of the same name wins
RECURSIVE LastIndexFrom(_, _, _)
LastIndexFrom(s, x, i) ==
    IF i = 0 THEN 0
    ELSE IF s[i] = x THEN i
    ELSE LastIndexFrom(s, x, i - 1)

_joint_map(rb) ==
    [nm \in {rb.joints[i].name : i \in 1..Len(rb.joints)} |->
        rb.joints[LastIndexFrom(joint_names(rb), nm, Len(rb.joints))]]

_link_map(rb) ==
    [nm \in {rb.links[i].name : i \in 1..Len(rb.links)} |->
        rb.links[LastIndexFrom([i \in 1..Len(rb.links) |-> rb.links[i].name], nm, Len(rb.links))]]

\* A configuration handed to update_cfg:
\*   kind "dict"  items, the (name, value) pairs of a dict in iteration order
\*   kind "seq"   values, a list, tuple or array of numbers
\*   kind "other" any other object (a float, a string, None)
Configuration(kind, items, values) == [kind |-> kind, items |-> items, values |-> values]

\* lines 766-769: the (joint, value) pairs of a dict with string keys
RECURSIVE DictJointCfg(_, _, _)
DictJointCfg(rb, items, i) ==
    IF i > Len(items) THEN [exc |-> NoExc, joint_cfg |-> <<>>]
    ELSE IF items[i][1] \notin DOMAIN _joint_map(rb) THEN [exc |-> "KeyError", joint_cfg |-> <<>>]
    ELSE LET Before(rest) ==
                 IF rest.exc # NoExc THEN rest
                 ELSE [exc |-> NoExc,
                       joint_cfg |-> <<[joint |-> _joint_map(rb)[items[i][1]],
                                        q |-> Float(items[i][2])]>> \o rest.joint_cfg]
         IN Before(DictJointCfg(rb, items, i + 1))

\* SeqJointCfg without the else branch of line 781: zip pairs what there is
SeqJointCfgZip(rb, values) ==
    LET n == IF Len(values) < Len(rb.joints) THEN Len(values) ELSE Len(rb.joints) IN
    [exc |-> NoExc,
     joint_cfg |-> [i \in 1..n |-> [joint |-> rb.joints[i], q |-> Float(values[i])]]]

\* SeqJointCfg with self.robot.joints in place of self._actuated_joints in
\* line 778
SeqJointCfgFirst(rb, values) ==
    IF Len(values) = Len(rb.joints) \/ Len(values) = num_actuated_joints(rb) THEN
        [exc |-> NoExc,
         joint_cfg |-> [i \in 1..Len(values) |-> [joint |-> rb.joints[i], q |-> Float(values[i])]]]
    ELSE [exc |-> "ValueError", joint_cfg |-> <<>>]

\* lines 773-785: the (joint, value) pairs of a sequence
SeqJointCfg(rb, values) ==
    LET actuated == _update_actuated_joints(rb) IN
    IF Len(values) = Len(rb.joints) THEN
        [exc |-> NoExc,
         joint_cfg |-> [i \in 1..Len(values) |-> [joint |-> rb.joints[i], q |-> Float(values[i])]]]
    ELSE IF Len(values) = num_actuated_joints(rb) THEN
        [exc |-> NoExc,
         joint_cfg |-> [i \in 1..Len(values) |->
                           [joint |-> rb.joints[actuated[i]], q |-> Float(values[i])]]]
    ELSE [exc |-> "ValueError", joint_cfg |-> <<>>]

\* lines 764-785
JointCfg(rb, configuration) ==
    IF configuration.kind = "dict" THEN DictJointCfg(rb, configuration.items, 1)
    ELSE IF configuration.kind = "seq" THEN SeqJointCfg(rb, configuration.values)
    ELSE [exc |-> "TypeError", joint_cfg |-> <<>>]

\* MimicPairsFrom without the condition of line 789: every joint, with the
\* value 0.0
RECURSIVE AllPairsFrom(_, _)
AllPairsFrom(joints, i) ==
    IF i > Len(joints) THEN <<>>
    ELSE <<[joint |-> joints[i], q |-> Float(0)]>> \o AllPairsFrom(joints, i + 1)

\* lines 788-790: every mimic joint, with the value 0.0
RECURSIVE MimicPairsFrom(_, _)
MimicPairsFrom(joints, i) ==
    IF i > Len(joints) THEN <<>>
    ELSE IF joints[i].mimic # None
         THEN <<[joint |-> joints[i], q |-> Float(0)]>> \o MimicPairsFrom(joints, i + 1)
         ELSE MimicPairsFrom(joints, i + 1)

\* lines 788-803: the loop, which stops at the first exception with what it
\* has written so far
RECURSIVE UpdateLoop(_, _, _, _, _, _)
UpdateLoop(rb, bld, pairs, i, cfgNow, sceneNow) ==
    IF i > Len(pairs) THEN [exc |-> NoExc, cfg |-> cfgNow, scene |-> sceneNow]
    ELSE LET j == pairs[i].joint
             Store(fk) ==
                 IF fk.exc # NoExc THEN [exc |-> fk.exc, cfg |-> cfgNow, scene |-> sceneNow]
                 ELSE UpdateLoop(rb, bld, pairs, i + 1,
                          [cfgNow EXCEPT ![Index(joint_names(rb), j.name)] = fk.q],
                          IF sceneNow # None
                          THEN Some(GraphUpdate(sceneNow[1], j.parent, j.child, fk.matrix))
                          ELSE None)
         IN Store(_forward_kinematics_joint(rb, cfgNow, bld, j, pairs[i].q))

\* the (joint, value) pairs of the items of a dict before the first key that
\* is no joint name
RECURSIVE DictPrefix(_, _, _)
DictPrefix(rb, items, i) ==
    IF i > Len(items) THEN <<>>
    ELSE IF items[i][1] \notin DOMAIN _joint_map(rb) THEN <<>>
    ELSE <<[joint |-> _joint_map(rb)[items[i][1]], q |-> Float(items[i][2])]>>
         \o DictPrefix(rb, items, i + 1)

\* update_cfg that stores each item of a dict as it reads it, so that the
\* items before an unknown key are stored when the KeyError is raised
update_cfg_eager(rb, bld, cfgNow, sceneNow, configuration) ==
    LET Run(jc) ==
            IF jc.exc = "KeyError"
            THEN [UpdateLoop(rb, bld, DictPrefix(rb, configuration.items, 1), 1, cfgNow, sceneNow)
                     EXCEPT !.exc = "KeyError"]
            ELSE IF jc.exc # NoExc THEN [exc |-> jc.exc, cfg |-> cfgNow, scene |-> sceneNow]
            ELSE UpdateLoop(rb, bld, jc.joint_cfg \o MimicPairsFrom(rb.joints, 1), 1,
                            cfgNow, sceneNow)
    IN Run(JointCfg(rb, configuration))

\* Returns [exc, cfg, scene]: the exception and the object's state after the call.
update_cfg(rb, bld, cfgNow, sceneNow, configuration) ==
    LET Run(jc) ==
            IF jc.exc # NoExc THEN [exc |-> jc.exc, cfg |-> cfgNow, scene |-> sceneNow]
            ELSE UpdateLoop(rb, bld, jc.joint_cfg \o MimicPairsFrom(rb.joints, 1), 1,
                            cfgNow, sceneNow)
    IN Run(JointCfg(rb, configuration))

-----------------------------------------------------------------------------
(* split_along_joints (lines 990-1044), _create_subrobot (lines 976-988) *)

\* _successors (lines 958-974): the nodes of the scene graph reachable from
\* node along frame_from -> frame_to edges, node included
RECURSIVE Reach(_, _)
Reach(graph, nodes) ==
    LET more == nodes \cup {e[2] : e \in {d \in DOMAIN graph : d[1] \in nodes}} IN
    IF more = nodes THEN nodes ELSE Reach(graph, more)

_successors(graph, node) == Reach(graph, {node})

\* the elements of a sequence that satisfy keep, in order
RECURSIVE Filter(_, _, _)
Filter(s, keep(_), i) ==
    IF i > Len(s) THEN <<>>
    ELSE IF keep(s[i]) THEN <<s[i]>> \o Filter(s, keep, i + 1)
    ELSE Filter(s, keep, i + 1)

\* Robot(name=robot_name) filled by lines 980-986.  The links follow the
\* iteration order of a Python set, which is unspecified: they are listed
\* here in the order of the robot's links, and are to be compared as a set.
_create_subrobot(rb, graph, robot_name, root_link_name) ==
    LET Sub(subnodes) ==
            LET inLinks(l) == l.name \in subnodes
                inJoints(j) == j.parent \in subnodes /\ j.child \in subnodes
            IN [ name   |-> robot_name,
                 links  |-> Filter(rb.links, inLinks, 1),
                 joints |-> Filter(rb.joints, inJoints, 1) ]
    IN Sub(_successors(graph, root_link_name))

\* scene.graph.get(node)[0]: the matrices of the edges on the path from the
\* base frame to node, outermost first; fuel bounds the walk up a cyclic graph
RECURSIVE PathTo(_, _, _, _)
PathTo(graph, base, node, fuel) ==
    IF base = Some(node) THEN [exc |-> NoExc, path |-> <<>>]
    ELSE LET into == {e \in DOMAIN graph : e[2] = node} IN
         IF into = {} \/ fuel = 0 THEN [exc |-> "ValueError", path |-> <<>>]
         ELSE LET e == CHOOSE d \in into : TRUE
                  Down(up) ==
                      IF up.exc # NoExc THEN up
                      ELSE [exc |-> NoExc, path |-> Append(up.path, graph[e])]
              IN Down(PathTo(graph, base, e[1], fuel - 1))

\* lines 1031-1034: list.remove of each named element, ValueError when it is gone
RECURSIVE RemoveAll(_, _, _)
RemoveAll(list, names, i) ==
    IF i > Len(names) THEN [exc |-> NoExc, list |-> list]
    ELSE LET k == Index([n \in 1..Len(list) |-> list[n].name], names[i]) IN
         IF k = 0 THEN [exc |-> "ValueError", list |-> list]
         ELSE RemoveAll([n \in 1..(Len(list) - 1) |-> IF n < k THEN list[n] ELSE list[n + 1]],
                        names, i + 1)

\* lines 1037-1042: drop the first joint of the residual whose child is the split root
Sever(joints, root_link_name) ==
    LET k == Index([n \in 1..Len(joints) |-> joints[n].child], root_link_name) IN
    IF k = 0 THEN joints
    ELSE [n \in 1..(Len(joints) - 1) |-> IF n < k THEN joints[n] ELSE joints[n + 1]]

\* the keyword arguments of the URDF(...) calls of lines 1000-1004 and 1024-1026
SplitKwargs(rb) == [robot |-> rb, load_meshes |-> FALSE, generate_scene_graph |-> FALSE]

\* lines 1014-1042: one round per joint name; root is the residual robot,
\* result the (transform, robot) pairs after the first
RECURSIVE SplitLoop(_, _, _, _, _, _, _)
SplitLoop(rb, bld, graph, base, names, i, acc) ==
    IF i > Len(names) THEN [exc |-> NoExc, root |-> acc.root, result |-> acc.result]
    ELSE
        LET joint == _joint_map(rb)[names[i]]
            failed(e) == [exc |-> e, root |-> acc.root, result |-> acc.result]
            NamesOf(list) == [n \in 1..Len(list) |-> list[n].name]
            \* lines 1031-1042
            Remove(root_link, new_robot, transform, js, ls) ==
                IF js.exc # NoExc THEN failed(js.exc)
                ELSE IF ls.exc # NoExc THEN failed(ls.exc)
                ELSE SplitLoop(rb, bld, graph, base, names, i + 1,
                         [ root   |-> [ name   |-> acc.root.name,
                                        links  |-> ls.list,
                                        joints |-> Sever(js.list, root_link.name) ],
                           result |-> Append(acc.result,
                                             [transform |-> transform.path, robot |-> new_robot]) ])
            \* lines 1022-1028
            AppendResult(root_link, new_robot, transform, sub) ==
                IF transform.exc # NoExc THEN failed(transform.exc)
                ELSE IF sub.exc # NoExc THEN failed(sub.exc)
                ELSE Remove(root_link, new_robot, transform,
                            RemoveAll(acc.root.joints, NamesOf(new_robot.joints), 1),
                            RemoveAll(acc.root.links, NamesOf(new_robot.links), 1))
            \* lines 1016-1019
            Sub(root_link, new_robot) ==
                AppendResult(root_link, new_robot,
                             PathTo(graph, base, root_link.name, Len(rb.links)),
                             __init__(SplitKwargs(new_robot), bld))
        IN
        IF joint.child \notin DOMAIN _link_map(rb) THEN failed("KeyError")
        ELSE Sub(_link_map(rb)[joint.child],
                 _create_subrobot(rb, graph, joint.child, joint.child))

\* Returns [exc, result]; result is the list of (transform, robot) pairs, the
\* residual robot first with the identity transform (the empty path).
split_along_joints(rb, bld, sceneNow, base, joint_type) ==
    LET isType(j) == j.type = joint_type
        NamesOf(list) == [n \in 1..Len(list) |-> list[n].name]
        Result(r) ==
            IF r.exc # NoExc THEN [exc |-> r.exc, result |-> <<>>]
            ELSE [exc |-> NoExc,
                  result |-> <<[transform |-> <<>>, robot |-> r.root]>> \o r.result]
        \* lines 1012-1044
        Split(root_urdf, names) ==
            IF root_urdf.exc # NoExc THEN [exc |-> root_urdf.exc, result |-> <<>>]
            ELSE IF sceneNow = None /\ Len(names) > 0
                 THEN [exc |-> "AttributeError", result |-> <<>>]
            ELSE Result(SplitLoop(rb, bld, sceneNow[1], base, names, 1,
                                  [root |-> rb, result |-> <<>>]))
    IN Split(__init__(SplitKwargs(rb), bld), NamesOf(Filter(rb.joints, isType, 1)))

-----------------------------------------------------------------------------
(* The calls made on a URDF object *)

\* the values of the sequences drawn: position i holds base + i
SeqBases == {10}

\* the values of the dicts drawn
DictValues == {5}

\* a joint name that no drawn robot uses
UnknownJoint == "jX"

MaxDictLen == 2

SeqConfigurations ==
    { Configuration("seq", <<>>, [i \in 1..k |-> base + i])
        : k \in 0..(MaxJoints + 1), base \in SeqBases }

\* the item lists of the dicts of exactly k keys drawn from pairs
RECURSIVE DictItems(_, _)
DictItems(pairs, k) ==
    IF k = 0 THEN {<<>>}
    ELSE { Append(s, p) : s \in DictItems(pairs, k - 1), p \in pairs }

NoKeyTwice(items) == \A a, b \in 1..Len(items) : a # b => items[a][1] # items[b][1]

\* dicts of at most MaxDictLen keys, each a joint name of the robot or UnknownJoint
DictConfigurations(rb) ==
    LET keys == {rb.joints[i].name : i \in 1..Len(rb.joints)} \cup {UnknownJoint}
        pairs == keys \X DictValues
    IN { Configuration("dict", items, <<>>)
           : items \in { s \in UNION { DictItems(pairs, k) : k \in 0..MaxDictLen } : NoKeyTwice(s) } }

Configurations(rb) ==
    SeqConfigurations \cup DictConfigurations(rb) \cup {Configuration("other", <<>>, <<>>)}

\* the builds that differ on a robot: the choices matter only to a robot whose
\* default configuration is ragged
BuildsFor(rb) ==
    LET For(c) ==
            IF c.exc = NoExc /\ IsRagged(c.config) THEN Builds
            ELSE {[np_ragged |-> "error", tra_list_angle |-> "raise"]}
    IN For(DefaultConfig(rb))

\* URDF(robot=rb) with the default options
Construct(rb, bld) ==
    \E u \in {__init__([robot |-> rb], bld)} :
    /\ xml = None
    /\ _errors = <<>>
    /\ robot = rb
    /\ build = bld
    /\ ctor_exc = u.exc
    /\ cfg = u.cfg
    /\ base_link = u.base_link
    /\ scene = u.scene
    /\ op = "__init__"
    /\ arg = Configuration("none", <<>>, <<>>)
    /\ exc = u.exc
    /\ ret = <<>>
    /\ ncalls = 0
    /\ last_default = u.cfg
    /\ pc = Idle

Init == \E rb \in ChainRobots : \E bld \in BuildsFor(rb) : Construct(rb, bld)

\* the number of update_cfg calls made on one object
MaxCalls == 2

UpdateCfg ==
    /\ ctor_exc = NoExc
    /\ ncalls < MaxCalls
    /\ ncalls' = ncalls + 1
    /\ \E configuration \in Configurations(robot) :
        \E r \in {update_cfg(robot, build, cfg, scene, configuration)} :
        /\ cfg' = r.cfg
        /\ scene' = r.scene
        /\ op' = "update_cfg"
        /\ arg' = configuration
        /\ exc' = r.exc
        /\ ret' = <<>>
    /\ UNCHANGED <<robot, build, ctor_exc, base_link, last_default, xml, _errors, pc>>

\* GetDefaultCfg with the result also stored as the current configuration
GetDefaultCfgStored ==
    /\ ctor_exc = NoExc
    /\ \E r \in {get_default_cfg(robot, build)} :
        /\ op' = "get_default_cfg"
        /\ arg' = Configuration("none", <<>>, <<>>)
        /\ exc' = r.exc
        /\ ret' = r.value
        /\ last_default' = r.value
        /\ cfg' = r.value
    /\ UNCHANGED <<robot, build, ctor_exc, base_link, scene, ncalls, xml, _errors, pc>>

GetDefaultCfg ==
    /\ ctor_exc = NoExc
    /\ \E r \in {get_default_cfg(robot, build)} :
        /\ op' = "get_default_cfg"
        /\ arg' = Configuration("none", <<>>, <<>>)
        /\ exc' = r.exc
        /\ ret' = r.value
        /\ last_default' = r.value
    /\ UNCHANGED <<robot, build, ctor_exc, cfg, base_link, scene, ncalls, xml, _errors, pc>>

\* the joint types split_along_joints is called with
SplitTypes == {"floating", "fixed"}

\* a split that takes the joints of the chosen type out of the robot it is
\* called on instead of out of a copy
SplitAlongJointsInPlace ==
    /\ ctor_exc = NoExc
    /\ \E joint_type \in SplitTypes :
        LET other(j) == j.type # joint_type IN
        /\ op' = "split_along_joints"
        /\ arg' = Configuration(joint_type, <<>>, <<>>)
        /\ exc' = NoExc
        /\ ret' = <<>>
        /\ robot' = [robot EXCEPT !.joints = Filter(robot.joints, other, 1)]
    /\ UNCHANGED <<build, ctor_exc, cfg, base_link, scene, ncalls, last_default, xml, _errors, pc>>

SplitAlongJoints ==
    /\ ctor_exc = NoExc
    /\ \E joint_type \in SplitTypes :
        \E r \in {split_along_joints(robot, build, scene, base_link, joint_type)} :
        /\ op' = "split_along_joints"
        /\ arg' = Configuration(joint_type, <<>>, <<>>)
        /\ exc' = r.exc
        /\ ret' = r.result
    /\ UNCHANGED <<robot, build, ctor_exc, cfg, base_link, scene, ncalls, last_default, xml, _errors,
                   pc>>

Next == UpdateCfg \/ GetDefaultCfg \/ SplitAlongJoints

Spec == Init /\ [][Next]_vars

-----------------------------------------------------------------------------
(* Robots whose joints form a tree over the links, and the calls on them *)

TreeTypes == {"fixed", "floating"}

\* n joints over the links LName(0..n): link root is no joint's child, the
\* k-th other link (in list order) is the child of one joint whose parent is
\* LName(par[k]); the joints are declared in that order or in its reverse
TreeChild(root, k) == IF k <= root THEN k - 1 ELSE k

TreeJoint(n, root, par, order, types, d) ==
    LET k == IF order = "asc" THEN d ELSE n + 1 - d IN
    [ name   |-> JName(d),
      type   |-> types[k],
      parent |-> LName(par[k]),
      child  |-> LName(TreeChild(root, k)),
      origin |-> None,
      limit  |-> None,
      mimic  |-> None ]

TreesOf(n) ==
    { [ name   |-> "r",
        links  |-> [i \in 1..(n + 1) |-> MkLink(i - 1)],
        joints |-> [d \in 1..n |-> TreeJoint(n, t.root, t.par, t.order, t.types, d)] ]
      : t \in { u \in [ root : 0..n, par : [1..n -> 0..n],
                        order : {"asc", "desc"}, types : [1..n -> TreeTypes] ] :
                  \A k \in 1..n : u.par[k] # TreeChild(u.root, k) } }

TreeRobots == UNION { TreesOf(n) : n \in 0..MaxJoints }

\* no tree robot has a revolute joint, so one answer of trimesh is enough
TreeBuildsFor(rb) == { b \in BuildsFor(rb) : b.tra_list_angle = "raise" }

InitTree == \E rb \in TreeRobots : \E bld \in TreeBuildsFor(rb) : Construct(rb, bld)

NextTree == GetDefaultCfg \/ SplitAlongJoints

SpecTree == InitTree /\ [][NextTree]_vars

-----------------------------------------------------------------------------
(* XML documents and Python's conversions between text and numbers *)

\* An element: its tag, its attributes and its child elements.  The text of
\* an attribute is held as the tokens str.split() gives; a text of one token
\* stands for that token, the empty sequence for the empty text.
Element(tag, attrib, children) == [tag |-> tag, attrib |-> attrib, children |-> children]

NoAttrib == [a \in {} |-> <<>>]

\* a field that holds a str or None holds NoneStr for None
NoneStr == "<None>"

\* xml_element.get(name, default) for an attribute read as one string
GetStr(e, name, default) ==
    IF name \notin DOMAIN e.attrib THEN default
    ELSE IF e.attrib[name] = <<>> THEN ""
    ELSE e.attrib[name][1]

\* xml_element.findall(tag) and xml_element.find(tag)
FindAll(e, tag) == SelectSeq(e.children, LAMBDA c : c.tag = tag)

Find(e, tag) ==
    LET First(found) == IF found = <<>> THEN None ELSE Some(found[1])
    IN First(FindAll(e, tag))

\* the texts of the numbers 0..6: str(float) writes the first form, float()
\* reads both
FloatTexts == <<"0.0", "1.0", "2.0", "3.0", "4.0", "5.0", "6.0">>

IntTexts == <<"0", "1", "2", "3", "4", "5", "6">>

\* float(s): ValueError for a text that is no number
float(s) ==
    IF Index(FloatTexts, s) # 0 THEN [exc |-> NoExc, value |-> Index(FloatTexts, s) - 1]
    ELSE IF Index(IntTexts, s) # 0 THEN [exc |-> NoExc, value |-> Index(IntTexts, s) - 1]
    ELSE [exc |-> "ValueError", value |-> 0]

\* str(x) of a float, and of None
str(x) == IF x = None THEN "None" ELSE FloatTexts[x[1] + 1]

\* _str2float (lines 226-235): an Optional number
_str2float(s) ==
    IF s = NoneStr THEN [exc |-> NoExc, value |-> None]
    ELSE LET Wrap(f) == [exc |-> f.exc, value |-> Some(f.value)] IN Wrap(float(s))

\* list(map(float, tokens))
RECURSIVE MapFloat(_, _)
MapFloat(tokens, i) ==
    IF i > Len(tokens) THEN [exc |-> NoExc, value |-> <<>>]
    ELSE LET Cons(f, rest) ==
                 IF f.exc # NoExc THEN [exc |-> f.exc, value |-> <<>>]
                 ELSE IF rest.exc # NoExc THEN rest
                 ELSE [exc |-> NoExc, value |-> <<f.value>> \o rest.value]
         IN Cons(float(tokens[i]), MapFloat(tokens, i + 1))

\* the first exception among the results rs, NoExc when there is none
RECURSIVE FirstExc(_, _)
FirstExc(rs, i) ==
    IF i > Len(rs) THEN NoExc
    ELSE IF rs[i].exc # NoExc THEN rs[i].exc
    ELSE FirstExc(rs, i + 1)

Ok(value) == [exc |-> NoExc, value |-> value]

Raise(e) == [exc |-> e, value |-> None]

-----------------------------------------------------------------------------
(* The parser: URDF._parse_robot and what it calls *)

\* _parse_mimic (lines 1086-1094); the defaults 1.0 and 0.0 are floats, which
\* float() returns unchanged
_parse_mimic(x) ==
    IF x = None THEN Ok(None)
    ELSE LET Mimic(multiplier, offset) ==
                 IF FirstExc(<<multiplier, offset>>, 1) # NoExc
                 THEN Raise(FirstExc(<<multiplier, offset>>, 1))
                 ELSE Ok(Some([ joint      |-> GetStr(x[1], "joint", NoneStr),
                                multiplier |-> multiplier.value[1],
                                offset     |-> offset.value[1] ]))
         IN Mimic(_str2float(GetStr(x[1], "multiplier", "1.0")),
                  _str2float(GetStr(x[1], "offset", "0.0")))

\* _parse_safety_controller (lines 1107-1116)
_parse_safety_controller(x) ==
    IF x = None THEN Ok(None)
    ELSE LET SafetyController(lo, up, kp, kv) ==
                 IF FirstExc(<<lo, up, kp, kv>>, 1) # NoExc
                 THEN Raise(FirstExc(<<lo, up, kp, kv>>, 1))
                 ELSE Ok(Some([ soft_lower_limit |-> lo.value, soft_upper_limit |-> up.value,
                                k_position |-> kp.value, k_velocity |-> kv.value ]))
         IN SafetyController(_str2float(GetStr(x[1], "soft_lower_limit", NoneStr)),
                             _str2float(GetStr(x[1], "soft_upper_limit", NoneStr)),
                             _str2float(GetStr(x[1], "k_position", NoneStr)),
                             _str2float(GetStr(x[1], "k_velocity", NoneStr)))

\* _parse_calibration (lines 1218-1225)
_parse_calibration(x) ==
    IF x = None THEN Ok(None)
    ELSE LET Calibration(rising, falling) ==
                 IF FirstExc(<<rising, falling>>, 1) # NoExc
                 THEN Raise(FirstExc(<<rising, falling>>, 1))
                 ELSE Ok(Some([rising |-> rising.value, falling |-> falling.value]))
         IN Calibration(_str2float(GetStr(x[1], "rising", NoneStr)),
                        _str2float(GetStr(x[1], "falling", NoneStr)))

\* _parse_box (lines 1237-1238): the size stays an array of strings
_parse_box(e) ==
    IF "size" \notin DOMAIN e.attrib THEN Raise("KeyError")
    ELSE Ok([size |-> e.attrib["size"]])

\* _parse_cylinder (lines 1245-1249)
_parse_cylinder(e) ==
    IF "radius" \notin DOMAIN e.attrib THEN Raise("KeyError")
    ELSE LET Cylinder(radius, length) ==
                 IF radius.exc # NoExc THEN Raise(radius.exc)
                 ELSE IF "length" \notin DOMAIN e.attrib THEN Raise("KeyError")
                 ELSE IF length.exc # NoExc THEN Raise(length.exc)
                 ELSE Ok([radius |-> radius.value, length |-> length.value])
         IN Cylinder(float(GetStr(e, "radius", "")), float(GetStr(e, "length", "")))

\* _parse_sphere (lines 1258-1259)
_parse_sphere(e) ==
    IF "radius" \notin DOMAIN e.attrib THEN Raise("KeyError")
    ELSE LET Sphere(radius) ==
                 IF radius.exc # NoExc THEN Raise(radius.exc)
                 ELSE Ok([radius |-> radius.value])
         IN Sphere(float(GetStr(e, "radius", "")))

\* a numpy array of numbers
NdArray(s) == [k |-> "ndarray", v |-> s]

\* _parse_scale (lines 1264-1273): None, a float or an array
_parse_scale(e) ==
    IF "scale" \notin DOMAIN e.attrib THEN Ok(None)
    ELSE IF Len(e.attrib["scale"]) = 0 THEN Ok(None)
    ELSE LET Scale(fs) ==
                 IF fs.exc # NoExc THEN Raise(fs.exc)
                 ELSE IF Len(fs.value) = 1 THEN Ok(Some(Float(fs.value[1])))
                 ELSE Ok(Some(NdArray(fs.value)))
         IN Scale(MapFloat(e.attrib["scale"], 1))

\* _parse_mesh (lines 1282-1285)
_parse_mesh(e) ==
    LET Mesh(scale) ==
            IF scale.exc # NoExc THEN Raise(scale.exc)
            ELSE Ok([filename |-> GetStr(e, "filename", NoneStr), scale |-> scale.value])
    IN Mesh(_parse_scale(e))

\* Geometry() with one field set
Geometry(field, shape) ==
    [ box      |-> IF field = "box" THEN Some(shape) ELSE None,
      cylinder |-> IF field = "cylinder" THEN Some(shape) ELSE None,
      sphere   |-> IF field = "sphere" THEN Some(shape) ELSE None,
      mesh     |-> IF field = "mesh" THEN Some(shape) ELSE None ]

\* _parse_geometry (lines 1297-1310): xml_element[0] is the first child;
\* indexing None is a TypeError, an element without children an IndexError
_parse_geometry(x) ==
    IF x = None THEN Raise("TypeError")
    ELSE IF Len(x[1].children) = 0 THEN Raise("IndexError")
    ELSE LET child == x[1].children[1]
             Set(shape) ==
                 IF shape.exc # NoExc THEN Raise(shape.exc)
                 ELSE Ok(Geometry(child.tag, shape.value))
         IN IF child.tag = "box" THEN Set(_parse_box(child))
            ELSE IF child.tag = "cylinder" THEN Set(_parse_cylinder(child))
            ELSE IF child.tag = "sphere" THEN Set(_parse_sphere(child))
            ELSE IF child.tag = "mesh" THEN Set(_parse_mesh(child))
            ELSE Raise("ValueError")

\* _parse_origin (lines 1354-1364): tra.compose_matrix(translate, angles),
\* kept as the two vectors it is composed of
_parse_origin(x) ==
    IF x = None THEN Ok(None)
    ELSE LET Compose(xyz, rpy) ==
                 IF FirstExc(<<xyz, rpy>>, 1) # NoExc THEN Raise(FirstExc(<<xyz, rpy>>, 1))
                 ELSE Ok(Some([translate |-> xyz.value, angles |-> rpy.value]))
         IN Compose(MapFloat(IF "xyz" \in DOMAIN x[1].attrib THEN x[1].attrib["xyz"]
                             ELSE <<"0", "0", "0">>, 1),
                    MapFloat(IF "rpy" \in DOMAIN x[1].attrib THEN x[1].attrib["rpy"]
                             ELSE <<"0", "0", "0">>, 1))

\* _parse_color (lines 1379-1385)
_parse_color(x) ==
    IF x = None THEN Ok(None)
    ELSE LET Color(rgba) ==
                 IF rgba.exc # NoExc THEN Raise(rgba.exc)
                 ELSE Ok(Some([rgba |-> rgba.value]))
         IN Color(MapFloat(IF "rgba" \in DOMAIN x[1].attrib THEN x[1].attrib["rgba"]
                           ELSE <<"1", "1", "1", "1">>, 1))

\* _parse_texture (lines 1395-1400)
_parse_texture(x) ==
    IF x = None THEN Ok(None)
    ELSE Ok(Some([filename |-> GetStr(x[1], "filename", NoneStr)]))

\* _parse_material (lines 1409-1417)
_parse_material(x) ==
    IF x = None THEN Ok(None)
    ELSE LET Material(color, texture) ==
                 IF FirstExc(<<color, texture>>, 1) # NoExc
                 THEN Raise(FirstExc(<<color, texture>>, 1))
                 ELSE Ok(Some([color |-> color.value, texture |-> texture.value]))
         IN Material(_parse_color(Find(x[1], "color")), _parse_texture(Find(x[1], "texture")))

\* _parse_visual (lines 1428-1435)
_parse_visual(e) ==
    LET Visual(geometry, origin, material) ==
            IF FirstExc(<<geometry, origin, material>>, 1) # NoExc
            THEN Raise(FirstExc(<<geometry, origin, material>>, 1))
            ELSE Ok([ name     |-> GetStr(e, "name", NoneStr),
                      origin   |-> origin.value,
                      geometry |-> Some(geometry.value),
                      material |-> material.value ])
    IN Visual(_parse_geometry(Find(e, "geometry")), _parse_origin(Find(e, "origin")),
              _parse_material(Find(e, "material")))

\* _parse_collision (lines 1447-1453)
_parse_collision(e) ==
    LET Collision(geometry, origin) ==
            IF FirstExc(<<geometry, origin>>, 1) # NoExc
            THEN Raise(FirstExc(<<geometry, origin>>, 1))
            ELSE Ok([ name     |-> GetStr(e, "name", NoneStr),
                      origin   |-> origin.value,
                      geometry |-> Some(geometry.value) ])
    IN Collision(_parse_geometry(Find(e, "geometry")), _parse_origin(Find(e, "origin")))

\* _parse_inertia (lines 1464-1488): the six attribute texts, with the
\* defaults as numpy writes them into an array of strings
_parse_inertia(x) ==
    IF x = None THEN Ok(None)
    ELSE Ok(Some([ ixx |-> GetStr(x[1], "ixx", "1.0"), ixy |-> GetStr(x[1], "ixy", "0.0"),
                   ixz |-> GetStr(x[1], "ixz", "0.0"), iyy |-> GetStr(x[1], "iyy", "1.0"),
                   iyz |-> GetStr(x[1], "iyz", "0.0"), izz |-> GetStr(x[1], "izz", "1.0") ]))

\* _parse_mass (lines 1507-1511): the text, not a number
_parse_mass(x) ==
    IF x = None THEN Ok(NoneStr) ELSE Ok(GetStr(x[1], "value", "1.0"))

\* _parse_inertial (lines 1525-1534)
_parse_inertial(x) ==
    IF x = None THEN Ok(None)
    ELSE LET Inertial(origin, inertia, mass) ==
                 IF origin.exc # NoExc THEN Raise(origin.exc)
                 ELSE Ok(Some([origin |-> origin.value, inertia |-> inertia.value,
                               mass |-> mass.value]))
         IN Inertial(_parse_origin(Find(x[1], "origin")), _parse_inertia(Find(x[1], "inertia")),
                     _parse_mass(Find(x[1], "mass")))

\* the results of parse applied to the elements in order, up to the first exception
RECURSIVE ParseAll(_, _, _)
ParseAll(elements, parse(_), i) ==
    IF i > Len(elements) THEN Ok(<<>>)
    ELSE LET Cons(first) ==
                 IF first.exc # NoExc THEN Raise(first.exc)
                 ELSE LET Rest(rest) ==
                              IF rest.exc # NoExc THEN rest
                              ELSE Ok(<<first.value>> \o rest.value)
                      IN Rest(ParseAll(elements, parse, i + 1))
         IN Cons(parse(elements[i]))

\* _parse_link (lines 1546-1557)
_parse_link(e) ==
    IF "name" \notin DOMAIN e.attrib THEN Raise("KeyError")
    ELSE LET Link(inertial, visuals, collisions) ==
                 IF FirstExc(<<inertial, visuals, collisions>>, 1) # NoExc
                 THEN Raise(FirstExc(<<inertial, visuals, collisions>>, 1))
                 ELSE Ok([ name       |-> GetStr(e, "name", NoneStr),
                           inertial   |-> inertial.value,
                           visuals    |-> visuals.value,
                           collisions |-> collisions.value ])
         IN Link(_parse_inertial(Find(e, "inertial")),
                 ParseAll(FindAll(e, "visual"), _parse_visual, 1),
                 ParseAll(FindAll(e, "collision"), _parse_collision, 1))

\* _parse_axis (lines 1585-1590)
_parse_axis(x) ==
    IF x = None THEN Ok(<<1, 0, 0>>)
    ELSE MapFloat(IF "xyz" \in DOMAIN x[1].attrib THEN x[1].attrib["xyz"]
                  ELSE <<"1", "0", "0">>, 1)

\* _parse_limit (lines 1598-1607)
_parse_limit(x) ==
    IF x = None THEN Ok(None)
    ELSE LET Limit(effort, velocity, lower, upper) ==
                 IF FirstExc(<<effort, velocity, lower, upper>>, 1) # NoExc
                 THEN Raise(FirstExc(<<effort, velocity, lower, upper>>, 1))
                 ELSE Ok(Some([ effort |-> effort.value, velocity |-> velocity.value,
                                lower |-> lower.value, upper |-> upper.value ]))
         IN Limit(_str2float(GetStr(x[1], "effort", NoneStr)),
                  _str2float(GetStr(x[1], "velocity", NoneStr)),
                  _str2float(GetStr(x[1], "lower", NoneStr)),
                  _str2float(GetStr(x[1], "upper", NoneStr)))

\* _parse_dynamics (lines 1639-1647): damping and friction stay texts
_parse_dynamics(x) ==
    IF x = None THEN Ok(None)
    ELSE Ok(Some([ damping  |-> GetStr(x[1], "damping", NoneStr),
                   friction |-> GetStr(x[1], "friction", NoneStr) ]))

\* _parse_joint (lines 1665-1681): find("parent") of an element without one
\* is None, whose get is an AttributeError
_parse_joint(e) ==
    IF "name" \notin DOMAIN e.attrib THEN Raise("KeyError")
    ELSE IF Find(e, "parent") = None \/ Find(e, "child") = None THEN Raise("AttributeError")
    ELSE LET Joint(origin, axis, limit, dynamics, mimic, calibration, safety_controller) ==
                 LET first == FirstExc(<<origin, axis, limit, dynamics, mimic, calibration,
                                         safety_controller>>, 1)
                 IN IF first # NoExc THEN Raise(first)
                    ELSE Ok([ name     |-> GetStr(e, "name", NoneStr),
                              type     |-> GetStr(e, "type", NoneStr),
                              parent   |-> GetStr(Find(e, "parent")[1], "link", NoneStr),
                              child    |-> GetStr(Find(e, "child")[1], "link", NoneStr),
                              origin   |-> origin.value,
                              axis     |-> axis.value,
                              limit    |-> limit.value,
                              dynamics |-> dynamics.value,
                              mimic    |-> mimic.value,
                              calibration |-> calibration.value,
                              safety_controller |-> safety_controller.value ])
         IN Joint(_parse_origin(Find(e, "origin")), _parse_axis(Find(e, "axis")),
                  _parse_limit(Find(e, "limit")), _parse_dynamics(Find(e, "dynamics")),
                  _parse_mimic(Find(e, "mimic")), _parse_calibration(Find(e, "calibration")),
                  _parse_safety_controller(Find(e, "safety_controller")))

\* _parse_robot (lines 1738-1746); the root of a tree that has none is None,
\* whose attrib is an AttributeError
_parse_robot(x) ==
    IF x = None THEN Raise("AttributeError")
    ELSE IF "name" \notin DOMAIN x[1].attrib THEN Raise("KeyError")
    ELSE LET Robot(links, joints) ==
                 IF links.exc # NoExc THEN Raise(links.exc)
                 ELSE IF joints.exc # NoExc THEN Raise(joints.exc)
                 ELSE Ok([ name   |-> GetStr(x[1], "name", NoneStr),
                           links  |-> links.value,
                           joints |-> joints.value ])
         IN Robot(ParseAll(FindAll(x[1], "link"), _parse_link, 1),
                  ParseAll(FindAll(x[1], "joint"), _parse_joint, 1))

-----------------------------------------------------------------------------
(* validate (lines 578-593) and the walk of the _validate_* methods *)

\* one diagnostic: the class of the error object appended to self._errors
Diagnostic(class, about) == [class |-> class, about |-> about]

\* _validate_required_attribute (lines 613-621) for an attribute that holds a
\* str or None
RequiredStr(errors, attribute, about, allowed_values) ==
    IF attribute = NoneStr \/ attribute = ""
    THEN IF attribute # NoneStr /\ allowed_values # None /\ attribute \notin allowed_values[1]
         THEN errors \o <<Diagnostic("URDFIncompleteError", about),
                          Diagnostic("URDFAttributeValueError", about)>>
         ELSE Append(errors, Diagnostic("URDFIncompleteError", about))
    ELSE IF allowed_values # None /\ attribute \notin allowed_values[1]
         THEN Append(errors, Diagnostic("URDFAttributeValueError", about))
         ELSE errors

\* _validate_required_attribute (lines 613-621) for an attribute that holds
\* an object or None
RequiredObject(errors, attribute, about) ==
    IF attribute = None THEN Append(errors, Diagnostic("URDFIncompleteError", about))
    ELSE errors

\* the state of a walk: the exception that ended it and self._errors
Walk(e, errors) == [exc |-> e, errors |-> errors]

\* _validate_geometry (lines 1312-1338)
_validate_geometry(errors, geometry) ==
    IF geometry = None
    THEN Walk("AttributeError",
              Append(errors, Diagnostic("URDFIncompleteError", "geometry")))
    ELSE LET num_nones == Cardinality({f \in {"box", "cylinder", "sphere", "mesh"} :
                                          geometry[1][f] # None})
         IN IF num_nones < 1
            THEN Walk(NoExc, Append(errors, Diagnostic("URDFIncompleteError", "shape")))
            ELSE IF num_nones > 1
            THEN Walk(NoExc, Append(errors, Diagnostic("URDFError", "shape")))
            ELSE Walk(NoExc, errors)

\* the walk over items in order, up to the first exception
RECURSIVE ValidateAll(_, _, _, _)
ValidateAll(w, items, validate_item(_, _), i) ==
    IF w.exc # NoExc \/ i > Len(items) THEN w
    ELSE ValidateAll(validate_item(w.errors, items[i]), items, validate_item, i + 1)

\* _validate_visual (lines 1437-1438) and _validate_collision (lines 1455-1456)
_validate_visual(errors, visual) == _validate_geometry(errors, visual.geometry)

_validate_collision(errors, collision) == _validate_geometry(errors, collision.geometry)

\* _validate_link (lines 1559-1568)
_validate_link(errors, link) ==
    ValidateAll(ValidateAll(Walk(NoExc, RequiredStr(errors, link.name, "link name", None)),
                            link.visuals, _validate_visual, 1),
                link.collisions, _validate_collision, 1)

\* _validate_limit (lines 1609-1617)
_validate_limit(errors, limit) ==
    IF limit = None THEN Walk("AttributeError", errors)
    ELSE Walk(NoExc, RequiredObject(RequiredObject(errors, limit[1].effort, "limit effort"),
                                    limit[1].velocity, "limit velocity"))

\* line 1689-1696
allowed_types == {"revolute", "continuous", "prismatic", "fixed", "floating", "planar"}

\* _validate_joint without the test of line 1713: the limit is required of
\* every joint
_validate_joint_any_type(errors, joint) ==
    LET Limits(es) ==
            _validate_limit(RequiredObject(es, joint.limit, "joint limit"), joint.limit)
    IN Limits(RequiredStr(RequiredStr(RequiredStr(RequiredStr(errors,
                  joint.name, "joint name", None),
                  joint.type, "joint type", Some(allowed_types)),
                  joint.parent, "joint parent", None),
                  joint.child, "joint child", None))

\* _validate_joint (lines 1683-1719)
_validate_joint(errors, joint) ==
    LET Limits(es) ==
            IF joint.type \in {"revolute", "prismatic"}
            THEN _validate_limit(RequiredObject(es, joint.limit, "joint limit"), joint.limit)
            ELSE Walk(NoExc, es)
    IN Limits(RequiredStr(RequiredStr(RequiredStr(RequiredStr(errors,
                  joint.name, "joint name", None),
                  joint.type, "joint type", Some(allowed_types)),
                  joint.parent, "joint parent", None),
                  joint.child, "joint child", None))

\* _validate_robot (lines 1748-1759)
_validate_robot(errors, rb) ==
    IF rb = None THEN Walk(NoExc, errors)
    ELSE ValidateAll(ValidateAll(Walk(NoExc, RequiredStr(errors, rb[1].name, "robot name", None)),
                                 rb[1].links, _validate_link, 1),
                     rb[1].joints, _validate_joint, 1)

\* the decision functions handed to validate: None, for
\* validation_handler_strict (lines 379-388), and one that accepts everything
ValidationFns == {"None", "accept"}

\* validate (lines 578-593): [exc, errors, value]
validate(rb, validation_fn) ==
    LET Decide(w) ==
            [ exc    |-> w.exc,
              errors |-> w.errors,
              value  |-> IF w.exc # NoExc THEN None
                         ELSE IF validation_fn = "None" THEN Some(Len(w.errors) = 0)
                         ELSE Some(TRUE) ]
    IN Decide(_validate_robot(<<>>, Some(rb)))

-----------------------------------------------------------------------------
(* The serializer: write_xml (lines 1059-1066) and the _write_* methods *)

\* the path the default filename handler finds for a mesh reference when the
\* file exists below the mesh directory
ResolvedPath(fname) == IF fname = "m.stl" THEN "meshes/m.stl" ELSE fname

\* self._filename_handler (lines 412-415), filename_handler_magic (lines
\* 362-376): the reference itself unless a candidate path is a file
_filename_handler(fname, bld) ==
    IF fname = NoneStr THEN Raise("AttributeError")
    ELSE IF bld.mesh_file = "found" THEN Ok(ResolvedPath(fname))
    ELSE Ok(fname)

\* etree.SubElement(parent, tag, attrib): an attribute value that is None is
\* a TypeError; strs holds the attribute values that are strings
SubElement(tag, strs, attrib, children) ==
    IF \E a \in DOMAIN strs : strs[a] = NoneStr THEN Raise("TypeError")
    ELSE Ok(<<Element(tag, [a \in DOMAIN strs |-> <<strs[a]>>] @@ attrib, children)>>)

\* the attributes among names whose value is not None
Present(strs) == [a \in {b \in DOMAIN strs : strs[b] # NoneStr} |-> strs[a]]

\* list(map(str, numbers))
MapStr(numbers) == [i \in 1..Len(numbers) |-> str(Some(numbers[i]))]

\* the elements the writers in rs appended, in order, up to the first exception
RECURSIVE Children(_, _)
Children(rs, i) ==
    IF i > Len(rs) THEN Ok(<<>>)
    ELSE IF rs[i].exc # NoExc THEN Raise(rs[i].exc)
    ELSE LET After(rest) == IF rest.exc # NoExc THEN rest ELSE Ok(rs[i].value \o rest.value)
         IN After(Children(rs, i + 1))

\* the element tag, made first, with the children the writers then appended
Parent(tag, strs, children) ==
    IF \E a \in DOMAIN strs : strs[a] = NoneStr THEN Raise("TypeError")
    ELSE IF children.exc # NoExc THEN Raise(children.exc)
    ELSE SubElement(tag, strs, NoAttrib, children.value)

\* _write_box (lines 1240-1243), _write_cylinder (lines 1251-1256),
\* _write_sphere (lines 1261-1262)
_write_box(box) == SubElement("box", NoAttrib, [size |-> box.size], <<>>)

_write_cylinder(cylinder) ==
    SubElement("cylinder", [radius |-> str(Some(cylinder.radius)),
                            length |-> str(Some(cylinder.length))], NoAttrib, <<>>)

_write_sphere(sphere) == SubElement("sphere", [radius |-> str(Some(sphere.radius))], NoAttrib, <<>>)

\* _write_scale (lines 1275-1280): the attributes it sets on the mesh element
_write_scale(scale) ==
    IF scale = None THEN NoAttrib
    ELSE IF scale[1].k = "float"
         THEN [scale |-> <<str(scale[1].v), str(scale[1].v), str(scale[1].v)>>]
         ELSE [scale |-> MapStr(scale[1].v)]

\* _write_mesh (lines 1287-1295)
_write_mesh(mesh, bld) ==
    LET Mesh(filename) ==
            IF filename.exc # NoExc THEN Raise(filename.exc)
            ELSE SubElement("mesh", [filename |-> filename.value], _write_scale(mesh.scale), <<>>)
    IN Mesh(_filename_handler(mesh.filename, bld))

\* _write_geometry (lines 1340-1352)
_write_geometry(geometry, bld) ==
    IF geometry = None THEN Ok(<<>>)
    ELSE Parent("geometry", NoAttrib,
                IF geometry[1].box # None THEN _write_box(geometry[1].box[1])
                ELSE IF geometry[1].cylinder # None THEN _write_cylinder(geometry[1].cylinder[1])
                ELSE IF geometry[1].sphere # None THEN _write_sphere(geometry[1].sphere[1])
                ELSE IF geometry[1].mesh # None THEN _write_mesh(geometry[1].mesh[1], bld)
                ELSE Ok(<<>>))

\* _write_origin (lines 1366-1377): the translation and the angles read back
\* from the matrix
_write_origin(origin) ==
    IF origin = None THEN Ok(<<>>)
    ELSE SubElement("origin", NoAttrib,
                    [xyz |-> MapStr(origin[1].translate), rpy |-> MapStr(origin[1].angles)], <<>>)

\* _write_color (lines 1387-1393), _write_texture (lines 1402-1407),
\* _write_material (lines 1419-1426)
_write_color(color) ==
    IF color = None THEN Ok(<<>>)
    ELSE SubElement("color", NoAttrib, [rgba |-> MapStr(color[1].rgba)], <<>>)

_write_texture(texture) ==
    IF texture = None THEN Ok(<<>>)
    ELSE SubElement("texture", [filename |-> texture[1].filename], NoAttrib, <<>>)

_write_material(material) ==
    IF material = None THEN Ok(<<>>)
    ELSE Parent("material", NoAttrib,
                Children(<<_write_color(material[1].color),
                           _write_texture(material[1].texture)>>, 1))

\* _write_visual (lines 1440-1445): the name is not written
_write_visual(visual, bld) ==
    Parent("visual", NoAttrib,
           Children(<<_write_geometry(visual.geometry, bld), _write_origin(visual.origin),
                      _write_material(visual.material)>>, 1))

\* _write_collision (lines 1458-1462): the name is not written
_write_collision(collision, bld) ==
    Parent("collision", NoAttrib,
           Children(<<_write_geometry(collision.geometry, bld),
                      _write_origin(collision.origin)>>, 1))

\* _write_inertia (lines 1490-1505), _write_mass (lines 1513-1523),
\* _write_inertial (lines 1536-1544)
_write_inertia(inertia) ==
    IF inertia = None THEN Ok(<<>>)
    ELSE SubElement("inertia", inertia[1], NoAttrib, <<>>)

_write_mass(mass) ==
    IF mass = NoneStr THEN Ok(<<>>)
    ELSE SubElement("mass", [value |-> mass], NoAttrib, <<>>)

_write_inertial(inertial) ==
    IF inertial = None THEN Ok(<<>>)
    ELSE Parent("inertial", NoAttrib,
                Children(<<_write_origin(inertial[1].origin), _write_mass(inertial[1].mass),
                           _write_inertia(inertial[1].inertia)>>, 1))

\* the elements write appended for the items in order
RECURSIVE WriteAll(_, _, _, _)
WriteAll(items, write(_, _), bld, i) ==
    IF i > Len(items) THEN Ok(<<>>)
    ELSE LET First(first) ==
                 IF first.exc # NoExc THEN first
                 ELSE LET After(rest) ==
                              IF rest.exc # NoExc THEN rest ELSE Ok(first.value \o rest.value)
                      IN After(WriteAll(items, write, bld, i + 1))
         IN First(write(items[i], bld))

\* _write_link (lines 1570-1583)
_write_link(link, bld) ==
    Parent("link", [name |-> link.name],
           Children(<<_write_inertial(link.inertial),
                      WriteAll(link.visuals, _write_visual, bld, 1),
                      WriteAll(link.collisions, _write_collision, bld, 1)>>, 1))

\* _write_axis (lines 1592-1596)
_write_axis(axis) ==
    IF axis = None THEN Ok(<<>>)
    ELSE SubElement("axis", NoAttrib, [xyz |-> MapStr(axis)], <<>>)

\* _write_limit (lines 1619-1637): the members that are not None
_write_limit(limit) ==
    IF limit = None THEN Ok(<<>>)
    ELSE SubElement("limit",
                    [a \in {b \in {"effort", "velocity", "lower", "upper"} : limit[1][b] # None}
                        |-> str(limit[1][a])],
                    NoAttrib, <<>>)

\* _write_dynamics (lines 1649-1663)
_write_dynamics(dynamics) ==
    IF dynamics = None THEN Ok(<<>>)
    ELSE SubElement("dynamics", Present(dynamics[1]), NoAttrib, <<>>)

\* _write_joint (lines 1721-1736): mimic, calibration and safety_controller
\* are not written
_write_joint(joint, bld) ==
    Parent("joint", [name |-> joint.name, type |-> joint.type],
           Children(<<SubElement("parent", [link |-> joint.parent], NoAttrib, <<>>),
                      SubElement("child", [link |-> joint.child], NoAttrib, <<>>),
                      _write_origin(joint.origin), _write_axis(joint.axis),
                      _write_limit(joint.limit), _write_dynamics(joint.dynamics)>>, 1))

\* the element lines 1762-1765 build
RobotElement(rb, bld) ==
    Parent("robot", [name |-> rb.name],
           Children(<<WriteAll(rb.links, _write_link, bld, 1),
                      WriteAll(rb.joints, _write_joint, bld, 1)>>, 1))

\* _write_robot (lines 1761-1767): the method ends without a return
\* statement, so the caller gets None whatever was built
_write_robot(rb, bld) ==
    LET Return(xml_element) ==
            IF xml_element.exc # NoExc THEN Raise(xml_element.exc) ELSE Ok(None)
    IN Return(RobotElement(rb, bld))

\* write_xml (lines 1059-1066): etree.ElementTree(xml_element), a tree whose
\* root is xml_element
write_xml(rb, bld) ==
    LET ElementTree(xml_element) ==
            IF xml_element.exc # NoExc THEN Raise(xml_element.exc)
            ELSE Ok([root |-> xml_element.value])
    IN ElementTree(_write_robot(rb, bld))

-----------------------------------------------------------------------------
(* load (lines 623-679), the documents loaded and the calls on the object *)

\* load of a document with the root element xml_root: [exc, robot, cfg,
\* base_link, scene]; robot is the parsed Robot once the parser returned
load(xml_root, kwargs, bld) ==
    LET failed(e) == [exc |-> e, robot |-> None, cfg |-> <<>>, base_link |-> None, scene |-> None]
        With(parsed, u) == [u EXCEPT !.robot = Some(parsed)]
        Object(parsed) ==
            IF parsed.exc # NoExc THEN failed(parsed.exc)
            ELSE With(parsed.value, __init__([robot |-> parsed.value] @@ kwargs, bld))
    IN Object(_parse_robot(Some(xml_root)))

\* the text of one token
Text(s) == <<s>>

MeshElement(scale) ==
    Element("mesh", [filename |-> Text("m.stl")] @@ scale, <<>>)

BoxElement == Element("box", [size |-> <<"1", "1", "1">>], <<>>)

SphereElement == Element("sphere", [radius |-> Text("1")], <<>>)

GeometryElement(children) == Element("geometry", NoAttrib, children)

\* the <visual> elements of the first link
VisualKinds ==
    {"none", "mesh", "scalar_scale", "vector_scale", "box", "zero", "two", "no_geometry"}

Visuals(kind) ==
    IF kind = "none" THEN <<>>
    ELSE IF kind = "mesh"
    THEN <<Element("visual", [name |-> Text("v")], <<GeometryElement(<<MeshElement(NoAttrib)>>)>>)>>
    ELSE IF kind = "scalar_scale"
    THEN <<Element("visual", [name |-> Text("v")],
                   <<GeometryElement(<<MeshElement([scale |-> Text("2")])>>)>>)>>
    ELSE IF kind = "vector_scale"
    THEN <<Element("visual", NoAttrib,
                   <<GeometryElement(<<MeshElement([scale |-> <<"1", "2", "3">>])>>)>>)>>
    ELSE IF kind = "box"
    THEN <<Element("visual", NoAttrib, <<GeometryElement(<<BoxElement>>)>>)>>
    ELSE IF kind = "zero"
    THEN <<Element("visual", NoAttrib, <<GeometryElement(<<>>)>>)>>
    ELSE IF kind = "two"
    THEN <<Element("visual", NoAttrib, <<GeometryElement(<<BoxElement, SphereElement>>)>>)>>
    ELSE <<Element("visual", NoAttrib, <<>>)>>

\* the <collision> elements of the first link
CollisionKinds == {"none", "sphere"}

Collisions(kind) ==
    IF kind = "none" THEN <<>>
    ELSE <<Element("collision", [name |-> Text("c")], <<GeometryElement(<<SphereElement>>)>>)>>

LinkRef(tag, link) == Element(tag, [link |-> Text(link)], <<>>)

LimitElement ==
    Element("limit", [lower |-> Text("2"), upper |-> Text("6.0"),
                      effort |-> Text("1"), velocity |-> Text("1")], <<>>)

\* the <joint> elements, and with them the number of links
JointKinds == {"none", "fixed", "limited", "mimic", "no_limit", "no_type"}

Joints(kind) ==
    IF kind = "none" THEN <<>>
    ELSE IF kind = "fixed"
    THEN <<Element("joint", [name |-> Text("j1"), type |-> Text("fixed")],
                   <<LinkRef("parent", "A"), LinkRef("child", "B")>>)>>
    ELSE IF kind = "limited"
    THEN <<Element("joint", [name |-> Text("j1"), type |-> Text("revolute")],
                   <<LinkRef("parent", "A"), LinkRef("child", "B"), LimitElement,
                     Element("dynamics", [damping |-> Text("0.5")], <<>>)>>)>>
    ELSE IF kind = "mimic"
    THEN <<Element("joint", [name |-> Text("j1"), type |-> Text("revolute")],
                   <<LinkRef("parent", "A"), LinkRef("child", "B"), LimitElement,
                     Element("mimic", [joint |-> Text("j2"), multiplier |-> Text("2"),
                                       offset |-> Text("1")], <<>>),
                     Element("calibration", [rising |-> Text("1")], <<>>),
                     Element("safety_controller", [k_velocity |-> Text("1"),
                                                   soft_lower_limit |-> Text("2")], <<>>)>>),
           Element("joint", [name |-> Text("j2"), type |-> Text("continuous")],
                   <<LinkRef("parent", "B"), LinkRef("child", "C")>>)>>
    ELSE IF kind = "no_limit"
    THEN <<Element("joint", [name |-> Text("j1"), type |-> Text("revolute")],
                   <<LinkRef("parent", "A"), LinkRef("child", "B")>>)>>
    ELSE <<Element("joint", [name |-> Text("j1")],
                   <<LinkRef("parent", "A"), LinkRef("child", "B")>>)>>

LinkElement(name, children) == Element("link", [name |-> Text(name)], children)

\* the document <robot name="r"> with the chosen elements
Document(visual, collision, joint) ==
    Element("robot", [name |-> Text("r")],
            <<LinkElement("A", Visuals(visual) \o Collisions(collision))>>
            \o (IF joint = "none" THEN <<>> ELSE <<LinkElement("B", <<>>)>>)
            \o (IF joint = "mimic" THEN <<LinkElement("C", <<>>)>> ELSE <<>>)
            \o Joints(joint))

\* the libraries as in Builds, and whether the mesh file of the document is
\* found below the mesh directory
CodecBuilds ==
    [np_ragged : {"error"}, tra_list_angle : {"raise"}, mesh_file : {"found", "missing"}]

\* load(fname, build_scene_graph=False, load_meshes=False); line 647 adds mesh_dir
LoadKwargs == [build_scene_graph |-> FALSE, load_meshes |-> FALSE, mesh_dir |-> "meshes"]

NoRobot == [name |-> NoneStr, links |-> <<>>, joints |-> <<>>]

Load(doc, bld) ==
    \E u \in {load(doc, LoadKwargs, bld)} :
    /\ xml = Some(doc)
    /\ _errors = <<>>
    /\ robot = IF u.robot = None THEN NoRobot ELSE u.robot[1]
    /\ build = bld
    /\ ctor_exc = u.exc
    /\ cfg = u.cfg
    /\ base_link = u.base_link
    /\ scene = u.scene
    /\ op = "load"
    /\ arg = Configuration("none", <<>>, <<>>)
    /\ exc = u.exc
    /\ ret = <<>>
    /\ ncalls = 0
    /\ last_default = u.cfg
    /\ pc = Idle

InitCodec ==
    \E visual \in VisualKinds, collision \in CollisionKinds, joint \in JointKinds :
        \E bld \in CodecBuilds : Load(Document(visual, collision, joint), bld)

\* Validate without the self._errors = [] of line 587: the walk appends to
\* what earlier calls recorded
ValidateKeeping ==
    /\ ctor_exc = NoExc
    /\ \E validation_fn \in ValidationFns :
        \E r \in {validate(robot, validation_fn)} :
        /\ _errors' = _errors \o r.errors
        /\ op' = "validate"
        /\ arg' = Configuration(validation_fn, <<>>, <<>>)
        /\ exc' = r.exc
        /\ ret' = r.value
    /\ UNCHANGED <<xml, robot, build, ctor_exc, cfg, base_link, scene, ncalls, last_default,
                   pc>>

Validate ==
    /\ ctor_exc = NoExc
    /\ \E validation_fn \in ValidationFns :
        \E r \in {validate(robot, validation_fn)} :
        /\ _errors' = r.errors
        /\ op' = "validate"
        /\ arg' = Configuration(validation_fn, <<>>, <<>>)
        /\ exc' = r.exc
        /\ ret' = r.value
    /\ UNCHANGED <<xml, robot, build, ctor_exc, cfg, base_link, scene, ncalls, last_default,
                   pc>>

WriteXml ==
    /\ ctor_exc = NoExc
    /\ \E r \in {write_xml(robot, build)} :
        /\ op' = "write_xml"
        /\ arg' = Configuration("none", <<>>, <<>>)
        /\ exc' = r.exc
        /\ ret' = r.value
    /\ UNCHANGED <<xml, _errors, robot, build, ctor_exc, cfg, base_link, scene, ncalls,
                   last_default, pc>>

\* URDF._parse_robot(tree.getroot()) on the tree the last write_xml returned
ParseWritten ==
    /\ op = "write_xml"
    /\ exc = NoExc
    /\ \E r \in {_parse_robot(ret.root)} :
        /\ op' = "_parse_robot"
        /\ arg' = Configuration("none", <<>>, <<>>)
        /\ exc' = r.exc
        /\ ret' = r.value
    /\ UNCHANGED <<xml, _errors, robot, build, ctor_exc, cfg, base_link, scene, ncalls,
                   last_default, pc>>

\* the meshes of the visuals of the Robot's links
VisualMeshes(rb) ==
    UNION { { rb.links[i].visuals[k].geometry[1].mesh[1] :
                k \in { n \in 1..Len(rb.links[i].visuals) :
                          /\ rb.links[i].visuals[n].geometry # None
                          /\ rb.links[i].visuals[n].geometry[1].mesh # None } }
            : i \in 1..Len(rb.links) }

\* self._write_mesh(xml_parent, mesh) for a mesh of the Robot; ret is the
\* <mesh> element appended to xml_parent
WriteMesh ==
    /\ ctor_exc = NoExc
    /\ \E mesh \in VisualMeshes(robot) :
        \E r \in {_write_mesh(mesh, build)} :
        /\ op' = "_write_mesh"
        /\ arg' = [kind |-> "mesh", items |-> <<mesh>>, values |-> <<>>]
        /\ exc' = r.exc
        /\ ret' = r.value
    /\ UNCHANGED <<xml, _errors, robot, build, ctor_exc, cfg, base_link, scene, ncalls,
                   last_default, pc>>

\* URDF._parse_mesh on the <mesh> element the last _write_mesh appended
ParseMeshWritten ==
    /\ op = "_write_mesh"
    /\ exc = NoExc
    /\ \E r \in {_parse_mesh(ret[1])} :
        /\ op' = "_parse_mesh"
        /\ exc' = r.exc
        /\ ret' = r.value
    /\ UNCHANGED <<xml, _errors, robot, build, ctor_exc, cfg, base_link, scene, arg, ncalls,
                   last_default, pc>>

NextCodec == Validate \/ WriteXml \/ ParseWritten \/ WriteMesh \/ ParseMeshWritten

SpecCodec == InitCodec /\ [][NextCodec]_vars

-----------------------------------------------------------------------------
(* Document Models built in code, and the calls on their URDF objects *)

\* Joint(name, type, parent, child, axis=axis, limit=limit) (lines 152-164)
MkModelJoint(name, type, parent, child, axis, limit) ==
    [ name |-> name, type |-> type, parent |-> parent, child |-> child,
      origin |-> None, axis |-> axis, dynamics |-> None, limit |-> limit,
      mimic |-> None, calibration |-> None, safety_controller |-> None ]

\* Link(name, inertial, visuals, collisions) (lines 130-135)
MkModelLink(name, inertial, visuals, collisions) ==
    [name |-> name, inertial |-> inertial, visuals |-> visuals, collisions |-> collisions]

\* Geometry(mesh=Mesh(filename="m.stl")) and Geometry(box=Box(size))
MeshGeometry ==
    [box |-> None, cylinder |-> None, sphere |-> None,
     mesh |-> Some([filename |-> "m.stl", scale |-> None])]

BoxGeometry ==
    [box |-> Some([size |-> <<"1", "1", "1">>]), cylinder |-> None, sphere |-> None,
     mesh |-> None]

\* what the first link carries
ModelLinkKinds ==
    { "bare", "visual_no_geometry", "collision_no_geometry", "visual_box",
      "texture_no_filename", "textured", "inertial_empty" }

ModelLinkA(kind) ==
    IF kind = "visual_no_geometry"
    THEN MkModelLink("A", None,
             <<[name |-> NoneStr, origin |-> None, geometry |-> None, material |-> None]>>, <<>>)
    ELSE IF kind = "collision_no_geometry"
    THEN MkModelLink("A", None, <<>>, <<[name |-> "c", origin |-> None, geometry |-> None]>>)
    ELSE IF kind = "visual_box"
    THEN MkModelLink("A", None,
             <<[name |-> "v", origin |-> None, geometry |-> Some(BoxGeometry),
                material |-> None]>>, <<>>)
    ELSE IF kind = "texture_no_filename"
    THEN MkModelLink("A", None,
             <<[name |-> NoneStr, origin |-> None, geometry |-> Some(MeshGeometry),
                material |-> Some([color |-> None,
                                   texture |-> Some([filename |-> NoneStr])])]>>, <<>>)
    ELSE IF kind = "textured"
    THEN MkModelLink("A", None,
             <<[name |-> NoneStr, origin |-> None, geometry |-> Some(MeshGeometry),
                material |-> Some([color |-> None,
                                   texture |-> Some([filename |-> "t.png"])])]>>, <<>>)
    ELSE IF kind = "inertial_empty"
    THEN MkModelLink("A", Some([origin |-> None, mass |-> NoneStr, inertia |-> None]),
                     <<>>, <<>>)
    ELSE MkModelLink("A", None, <<>>, <<>>)

\* the second joint's fields: each of them present or absent, a type outside
\* the allowed ones, and a parent or child that names no link
ModelNames == {"j2", NoneStr}

ModelTypes == {"revolute", "prismatic", "continuous", "hinge", NoneStr}

ModelEnds ==
    { <<"B", "C">>, <<NoneStr, "C">>, <<"B", NoneStr>>, <<"Z", "C">>, <<"B", "Z">> }

ModelAxes == {None, <<1, 0, 0>>}

ModelLimits ==
    { None, Some(LimitA), Some([LimitA EXCEPT !.effort = None]),
      Some([LimitA EXCEPT !.velocity = None]) }

\* Robot(name="r", links=[A, B, C], joints=[j1, j2]): j1 is a fixed joint
\* from A to B, j2 takes the drawn fields
ModelRobots ==
    { [ name   |-> "r",
        links  |-> <<ModelLinkA(kind), MkModelLink("B", None, <<>>, <<>>),
                     MkModelLink("C", None, <<>>, <<>>)>>,
        joints |-> <<MkModelJoint("j1", "fixed", "A", "B", <<1, 0, 0>>, None),
                     MkModelJoint(name, type, ends[1], ends[2], axis, limit)>> ]
      : kind \in ModelLinkKinds, name \in ModelNames, type \in ModelTypes,
        ends \in ModelEnds, axis \in ModelAxes, limit \in ModelLimits }

\* URDF(robot=rb, build_scene_graph=False, load_meshes=False)
ModelKwargs(rb) == [robot |-> rb, build_scene_graph |-> FALSE, load_meshes |-> FALSE]

InitModel ==
    \E rb \in ModelRobots, bld \in CodecBuilds :
        \E u \in {__init__(ModelKwargs(rb), bld)} :
        /\ xml = None
        /\ _errors = <<>>
        /\ robot = rb
        /\ build = bld
        /\ ctor_exc = u.exc
        /\ cfg = u.cfg
        /\ base_link = u.base_link
        /\ scene = u.scene
        /\ op = "__init__"
        /\ arg = Configuration("none", <<>>, <<>>)
        /\ exc = u.exc
        /\ ret = <<>>
        /\ ncalls = 0
        /\ last_default = u.cfg
        /\ pc = Idle

NextModel == Validate \/ WriteXml

SpecModel == InitModel /\ [][NextModel]_vars

-----------------------------------------------------------------------------
(* The filename handlers (lines 238-376) *)

\* A file name: the directive before "://" ("" when there is none), whether
\* what follows starts at the root, and its segments.  PathStr(FALSE, <<>>)
\* is the empty string.
FileName(scheme, root, parts) == [scheme |-> scheme, root |-> root, parts |-> parts]

PathStr(root, parts) == FileName("", root, parts)

\* the value None where a file name is expected
NoneFileName == FileName(NoneStr, FALSE, <<>>)

\* os.path.join(a, b) for a directory a without directive: b when b starts
\* at the root, otherwise b below a
os_path_join(a, b) ==
    IF b.root THEN b ELSE PathStr(a.root, a.parts \o b.parts)

\* os.path.dirname(p), which is also os.path.split(p)[0]: the root and the
\* empty string are their own dirname
os_path_dirname(p) ==
    IF p.parts = <<>> THEN p ELSE PathStr(p.root, SubSeq(p.parts, 1, Len(p.parts) - 1))

\* len(os.path.normpath(p).split(os.path.sep)): normpath("") is ".", and the
\* split of a rooted path starts with an empty string
NormpathSplitLen(p) ==
    IF p.root THEN (IF p.parts = <<>> THEN 2 ELSE 1 + Len(p.parts))
    ELSE IF p.parts = <<>> THEN 1 ELSE Len(p.parts)

\* filename_handler_ignore_directive (lines 250-259)
filename_handler_ignore_directive(fname) == PathStr(fname.root, fname.parts)

\* filename_handler_ignore_directive_package (lines 262-275): the split on
\* the separator of a rooted remainder starts with an empty string, which is
\* what [1:] then drops
filename_handler_ignore_directive_package(fname) ==
    IF fname = NoneFileName THEN Raise("AttributeError")
    ELSE IF fname.scheme = "package"
    THEN Ok(PathStr(FALSE, IF fname.root \/ fname.parts = <<>> THEN fname.parts
                           ELSE Tail(fname.parts)))
    ELSE Ok(filename_handler_ignore_directive(fname))

\* filename_handler_relative (lines 307-317)
filename_handler_relative(fname, dir) ==
    LET Join(stripped) ==
            IF stripped.exc # NoExc THEN stripped ELSE Ok(os_path_join(dir, stripped.value))
    IN Join(filename_handler_ignore_directive_package(fname))

\* filename_handler_relative_to_urdf_file (lines 320-321)
filename_handler_relative_to_urdf_file(fname, urdf_fname) ==
    filename_handler_relative(fname, os_path_dirname(urdf_fname))

\* filename_handler_relative_to_urdf_file_recursive (lines 324-329)
RECURSIVE filename_handler_relative_to_urdf_file_recursive(_, _, _)
filename_handler_relative_to_urdf_file_recursive(fname, urdf_fname, level) ==
    IF level = 0 THEN filename_handler_relative_to_urdf_file(fname, urdf_fname)
    ELSE filename_handler_relative_to_urdf_file_recursive(fname, os_path_dirname(urdf_fname),
                                                          level - 1)

\* a filename handler of one argument: a function of the module, or a
\* partial of one with its keyword arguments
Handler(fn, keywords) == [fn |-> fn, keywords |-> keywords]

\* fn(fname=fname) for such a handler
Call(fn, fname) ==
    IF fn.fn = "filename_handler_null" THEN Ok(fname)
    ELSE IF fn.fn = "filename_handler_relative"
    THEN filename_handler_relative(fname, fn.keywords.dir)
    ELSE filename_handler_relative_to_urdf_file_recursive(fname, fn.keywords.urdf_fname,
                                                          fn.keywords.level)

\* _create_filename_handlers_to_urdf_file_recursive (lines 332-340)
_create_filename_handlers_to_urdf_file_recursive(urdf_fname) ==
    [i \in 1..NormpathSplitLen(urdf_fname) |->
        Handler("filename_handler_relative_to_urdf_file_recursive",
                [urdf_fname |-> urdf_fname, level |-> i - 1])]

\* the result of a resolution: the exception, the value returned and the
\* candidate file names handed to os.path.isfile, in order
Resolved(e, value, checked) == [exc |-> e, value |-> value, checked |-> checked]

\* filename_handler_meta that goes on after a match and returns the last
\* candidate that is a file
RECURSIVE MetaLoopLast(_, _, _, _, _, _)
MetaLoopLast(fname, filename_handlers, files, i, checked, found) ==
    IF i > Len(filename_handlers) THEN Resolved(NoExc, found, checked)
    ELSE LET Check(candidate_fname) ==
                 IF candidate_fname.exc # NoExc THEN Resolved(candidate_fname.exc, fname, checked)
                 ELSE IF candidate_fname.value = NoneFileName
                 THEN Resolved("TypeError", fname, checked)
                 ELSE MetaLoopLast(fname, filename_handlers, files, i + 1,
                                   Append(checked, candidate_fname.value),
                                   IF candidate_fname.value \in files
                                   THEN candidate_fname.value ELSE found)
         IN Check(Call(filename_handlers[i], fname))

filename_handler_meta_last(fname, filename_handlers, files) ==
    MetaLoopLast(fname, filename_handlers, files, 1, <<>>, fname)

\* lines 353-359: files is the set of names for which os.path.isfile holds;
\* os.path.isfile(None) raises TypeError
RECURSIVE MetaLoop(_, _, _, _, _)
MetaLoop(fname, filename_handlers, files, i, checked) ==
    IF i > Len(filename_handlers) THEN Resolved(NoExc, fname, checked)
    ELSE LET Check(candidate_fname) ==
                 IF candidate_fname.exc # NoExc THEN Resolved(candidate_fname.exc, fname, checked)
                 ELSE IF candidate_fname.value = NoneFileName
                 THEN Resolved("TypeError", fname, checked)
                 ELSE IF candidate_fname.value \in files
                 THEN Resolved(NoExc, candidate_fname.value,
                               Append(checked, candidate_fname.value))
                 ELSE MetaLoop(fname, filename_handlers, files, i + 1,
                               Append(checked, candidate_fname.value))
         IN Check(Call(filename_handlers[i], fname))

\* filename_handler_meta (lines 343-359)
filename_handler_meta(fname, filename_handlers, files) ==
    MetaLoop(fname, filename_handlers, files, 1, <<>>)

\* filename_handler_magic (lines 362-376)
filename_handler_magic(fname, dir, files) ==
    filename_handler_meta(fname,
        <<Handler("filename_handler_relative", [dir |-> dir])>>
        \o _create_filename_handlers_to_urdf_file_recursive(dir),
        files)

-----------------------------------------------------------------------------
(* Resolving mesh references against a file system *)

MaxHandlers == 2

MeshName == "m.stl"

\* the references resolved: "m.stl", "package://pkg/m.stl",
\* "file:///a/m.stl", and None (a mesh parsed without filename, line 1284)
References ==
    { PathStr(FALSE, <<MeshName>>),
      FileName("package", FALSE, <<"pkg", MeshName>>),
      FileName("file", TRUE, <<"a", MeshName>>),
      NoneFileName }

\* the documents loaded: "r.urdf", "a/r.urdf", "a/b/r.urdf", "/r.urdf",
\* "/a/b/r.urdf"
DocumentNames ==
    { PathStr(FALSE, <<"r.urdf">>), PathStr(FALSE, <<"a", "r.urdf">>),
      PathStr(FALSE, <<"a", "b", "r.urdf">>), PathStr(TRUE, <<"r.urdf">>),
      PathStr(TRUE, <<"a", "b", "r.urdf">>) }

\* the names that may be files: "m.stl", "a/m.stl", "a/b/m.stl", "/a/m.stl"
MeshFiles ==
    { PathStr(FALSE, <<MeshName>>), PathStr(FALSE, <<"a", MeshName>>),
      PathStr(FALSE, <<"a", "b", MeshName>>), PathStr(TRUE, <<"a", MeshName>>) }

FileSystems == [isfile : SUBSET MeshFiles]

HandlerChoices ==
    { Handler("filename_handler_null", <<>>),
      Handler("filename_handler_relative", [dir |-> PathStr(FALSE, <<"a">>)]),
      Handler("filename_handler_relative", [dir |-> PathStr(FALSE, <<"a", "b">>)]),
      Handler("filename_handler_relative_to_urdf_file_recursive",
              [urdf_fname |-> PathStr(FALSE, <<"a", "b", "r.urdf">>), level |-> 1]) }

HandlerLists == UNION { [1..n -> HandlerChoices] : n \in 0..MaxHandlers }

InitResolver ==
    \E fs \in FileSystems :
        /\ xml = None
        /\ _errors = <<>>
        /\ robot = NoRobot
        /\ build = fs
        /\ ctor_exc = NoExc
        /\ cfg = <<>>
        /\ base_link = NoneStr
        /\ scene = <<>>
        /\ op = "none"
        /\ arg = <<>>
        /\ exc = NoExc
        /\ ret = <<>>
        /\ ncalls = 0
        /\ last_default = <<>>
        /\ pc = Idle

\* filename_handler_meta(fname, filename_handlers)
Meta ==
    \E fname \in References, filename_handlers \in HandlerLists :
        \E r \in {filename_handler_meta(fname, filename_handlers, build.isfile)} :
        /\ op' = "filename_handler_meta"
        /\ arg' = [fname |-> fname, filename_handlers |-> filename_handlers]
        /\ exc' = r.exc
        /\ ret' = [value |-> r.value, checked |-> r.checked]
        /\ UNCHANGED <<robot, build, ctor_exc, cfg, base_link, scene, ncalls, xml, _errors,
                       last_default, pc>>

\* The handler of a URDF loaded from urdf_fname with default options
\* (lines 413-416, mesh_dir of lines 646-647), called on a mesh reference
\* (lines 882, 1290)
Magic ==
    \E fname \in References, urdf_fname \in DocumentNames :
        \E r \in {filename_handler_magic(fname, os_path_dirname(urdf_fname), build.isfile)} :
        /\ op' = "filename_handler_magic"
        /\ arg' = [fname |-> fname, urdf_fname |-> urdf_fname]
        /\ exc' = r.exc
        /\ ret' = [value |-> r.value, checked |-> r.checked]
        /\ UNCHANGED <<robot, build, ctor_exc, cfg, base_link, scene, ncalls, xml, _errors,
                       last_default, pc>>

NextResolver == Meta \/ Magic

SpecResolver == InitResolver /\ [][NextResolver]_vars

-----------------------------------------------------------------------------
(* Documents with absent or inconsistent parts, parsed and loaded with
   default options *)

\* what the joint under test lacks or gets wrong
JointDefects ==
    { "sound", "no_name", "no_parent", "no_parent_link", "no_child", "no_child_link",
      "no_type", "unknown_type", "no_limit", "no_lower_upper", "child_no_link",
      "same_child", "mimic_no_joint" }

\* <parent> or <child> of the joint under test; other is the child of the
\* document's other joint
EndElements(defect, tag, link, other) ==
    IF defect = "no_" \o tag THEN <<>>
    ELSE IF defect = "no_" \o tag \o "_link" THEN <<Element(tag, NoAttrib, <<>>)>>
    ELSE IF tag = "child" /\ defect = "child_no_link" THEN <<LinkRef(tag, "Z")>>
    ELSE IF tag = "child" /\ defect = "same_child" THEN <<LinkRef(tag, other)>>
    ELSE <<LinkRef(tag, link)>>

\* a revolute joint with limits, but for its defect
DefectJoint(defect, name, parent, child, other) ==
    Element("joint",
            (IF defect = "no_name" THEN NoAttrib ELSE [name |-> Text(name)])
            @@ (IF defect = "no_type" THEN NoAttrib
                ELSE IF defect = "unknown_type" THEN [type |-> Text("hinge")]
                ELSE [type |-> Text("revolute")]),
            EndElements(defect, "parent", parent, other)
            \o EndElements(defect, "child", child, other)
            \o (IF defect = "no_limit" THEN <<>>
                ELSE IF defect = "no_lower_upper"
                THEN <<Element("limit", [effort |-> Text("1"), velocity |-> Text("1")], <<>>)>>
                ELSE <<LimitElement>>)
            \o (IF defect = "mimic_no_joint"
                THEN <<Element("mimic", [joint |-> Text("jZ")], <<>>)>>
                ELSE <<>>))

FixedJoint(name, parent, child) ==
    Element("joint", [name |-> Text(name), type |-> Text("fixed")],
            <<LinkRef("parent", parent), LinkRef("child", child)>>)

\* what the first link lacks
LinkDefects ==
    { "sound", "no_name", "visual_no_geometry", "box_no_size", "mesh_no_filename",
      "visual_mesh_only" }

DefectLink(defect) ==
    Element("link", IF defect = "no_name" THEN NoAttrib ELSE [name |-> Text("A")],
            IF defect = "visual_no_geometry" THEN <<Element("visual", NoAttrib, <<>>)>>
            ELSE IF defect = "box_no_size"
            THEN <<Element("visual", NoAttrib,
                           <<GeometryElement(<<Element("box", NoAttrib, <<>>)>>)>>)>>
            ELSE IF defect = "mesh_no_filename"
            THEN <<Element("visual", NoAttrib,
                           <<GeometryElement(<<Element("mesh", NoAttrib, <<>>)>>)>>)>>
            ELSE IF defect = "visual_mesh_only"
            THEN <<Element("visual", NoAttrib, <<GeometryElement(<<MeshElement(NoAttrib)>>)>>)>>
            ELSE <<>>)

\* <robot> with links A, B, C and joints j1 (A to B) and j2 (B to C); the
\* joint at position 1 or 2 is the one under test, the other is fixed
DefectDocument(robot_name, link, position, joint) ==
    Element("robot", IF robot_name THEN [name |-> Text("r")] ELSE NoAttrib,
            <<DefectLink(link), LinkElement("B", <<>>), LinkElement("C", <<>>)>>
            \o (IF position = 1
                THEN <<DefectJoint(joint, "j1", "A", "B", "C"), FixedJoint("j2", "B", "C")>>
                ELSE <<FixedJoint("j1", "A", "B"), DefectJoint(joint, "j2", "B", "C", "B")>>))

DefectDocuments ==
    { DefectDocument(robot_name, link, position, joint) :
        robot_name \in BOOLEAN, link \in LinkDefects, position \in 1..2,
        joint \in JointDefects }

\* URDF.load(fname): only mesh_dir is added to the keyword arguments (line 647)
DefaultKwargs == [mesh_dir |-> ""]

InitDefect ==
    \E doc \in DefectDocuments, bld \in CodecBuilds :
        /\ xml = Some(doc)
        /\ _errors = <<>>
        /\ robot = NoRobot
        /\ build = bld
        /\ ctor_exc = NoExc
        /\ cfg = <<>>
        /\ base_link = None
        /\ scene = None
        /\ op = "none"
        /\ arg = Configuration("none", <<>>, <<>>)
        /\ exc = NoExc
        /\ ret = <<>>
        /\ ncalls = 0
        /\ last_default = <<>>
        /\ pc = Idle

\* URDF._parse_robot(xml_element=xml_root)
ParseRobot ==
    /\ op = "none"
    /\ \E r \in {_parse_robot(xml)} :
        /\ op' = "_parse_robot"
        /\ exc' = r.exc
        /\ ret' = r.value
    /\ UNCHANGED <<xml, _errors, robot, build, ctor_exc, cfg, base_link, scene, arg, ncalls,
                   last_default, pc>>

\* URDF.load(fname) of a document whose links have no visual elements
LoadDefault ==
    /\ op = "none"
    /\ \A i \in 1..Len(xml[1].children) : FindAll(xml[1].children[i], "visual") = <<>>
    /\ \E u \in {load(xml[1], DefaultKwargs, build)} :
        /\ op' = "load"
        /\ exc' = u.exc
        /\ ctor_exc' = u.exc
        /\ robot' = IF u.robot = None THEN NoRobot ELSE u.robot[1]
        /\ cfg' = u.cfg
        /\ base_link' = u.base_link
        /\ scene' = u.scene
        /\ last_default' = u.cfg
    /\ UNCHANGED <<xml, _errors, build, arg, ret, ncalls, pc>>

NextDefect == ParseRobot \/ LoadDefault

SpecDefect == InitDefect /\ [][NextDefect]_vars

-----------------------------------------------------------------------------
(* update_cfg and get_default_cfg statement by statement, on robots whose
   mimic references may form a cycle *)

MaxStepJoints == 2

\* what a joint of these robots mimics: nothing, itself, or the other joint
StepShapes ==
    { [type |-> "revolute",   limit |-> Some(LimitA), target |-> "none"],
      [type |-> "fixed",      limit |-> None,         target |-> "none"],
      [type |-> "revolute",   limit |-> Some(LimitA), target |-> "self"],
      [type |-> "continuous", limit |-> None,         target |-> "other"] }

MkStepJoint(i, s) ==
    [ name   |-> JName(i),
      type   |-> s.type,
      parent |-> LName(i - 1),
      child  |-> LName(i),
      origin |-> None,
      limit  |-> s.limit,
      mimic  |-> IF s.target = "none" THEN None
                 ELSE Some([ joint      |-> JName(IF s.target = "self" THEN i
                                                  ELSE MaxStepJoints + 1 - i),
                             multiplier |-> 2,
                             offset     |-> 1 ]) ]

StepRobots ==
    { [ name   |-> "r",
        links  |-> [i \in 1..(MaxStepJoints + 1) |-> MkLink(i - 1)],
        joints |-> [i \in 1..MaxStepJoints |-> MkStepJoint(i, shapes[i])] ]
      : shapes \in [1..MaxStepJoints -> StepShapes] }

InitSteps == \E rb \in StepRobots : \E bld \in BuildsFor(rb) : Construct(rb, bld)

\* update_cfg up to the loop: lines 764-785 build joint_cfg, line 788 the list
\* the loop walks
CallUpdateCfg ==
    /\ pc.at = "idle"
    /\ ctor_exc = NoExc
    /\ ncalls < MaxCalls
    /\ ncalls' = ncalls + 1
    /\ \E configuration \in Configurations(robot) :
        \E jc \in {JointCfg(robot, configuration)} :
        /\ op' = "update_cfg"
        /\ arg' = configuration
        /\ exc' = jc.exc
        /\ ret' = <<>>
        /\ pc' = IF jc.exc # NoExc THEN Idle
                 ELSE [ at    |-> "update_cfg",
                        pairs |-> jc.joint_cfg \o MimicPairsFrom(robot.joints, 1),
                        i     |-> 1,
                        evals |-> 0 ]
    /\ UNCHANGED <<robot, build, ctor_exc, cfg, base_link, scene, last_default, xml, _errors>>

\* StepUpdateCfg that evaluates a mimic joint again for as long as its value
\* changes
StepUpdateCfgUntilStable ==
    /\ pc.at = "update_cfg"
    /\ IF pc.i > Len(pc.pairs)
       THEN pc' = Idle /\ UNCHANGED <<cfg, scene, exc>>
       ELSE \E fk \in {_forward_kinematics_joint(robot, cfg, build, pc.pairs[pc.i].joint,
                                                 pc.pairs[pc.i].q)} :
            IF fk.exc # NoExc
            THEN pc' = Idle /\ exc' = fk.exc /\ UNCHANGED <<cfg, scene>>
            ELSE /\ cfg' = [cfg EXCEPT ![Index(joint_names(robot), pc.pairs[pc.i].joint.name)]
                                           = fk.q]
                 /\ scene' = IF scene # None
                             THEN Some(GraphUpdate(scene[1], pc.pairs[pc.i].joint.parent,
                                                   pc.pairs[pc.i].joint.child, fk.matrix))
                             ELSE None
                 /\ pc' = [pc EXCEPT !.i = IF cfg' # cfg THEN @ ELSE @ + 1, !.evals = @ + 1]
                 /\ UNCHANGED exc
    /\ UNCHANGED <<robot, build, ctor_exc, base_link, op, arg, ret, ncalls, last_default, xml,
                   _errors>>

\* one round of the loop of lines 788-803, or the return after the last
StepUpdateCfg ==
    /\ pc.at = "update_cfg"
    /\ IF pc.i > Len(pc.pairs)
       THEN pc' = Idle /\ UNCHANGED <<cfg, scene, exc>>
       ELSE \E fk \in {_forward_kinematics_joint(robot, cfg, build, pc.pairs[pc.i].joint,
                                                 pc.pairs[pc.i].q)} :
            IF fk.exc # NoExc
            THEN pc' = Idle /\ exc' = fk.exc /\ UNCHANGED <<cfg, scene>>
            ELSE /\ cfg' = [cfg EXCEPT ![Index(joint_names(robot), pc.pairs[pc.i].joint.name)]
                                           = fk.q]
                 /\ scene' = IF scene # None
                             THEN Some(GraphUpdate(scene[1], pc.pairs[pc.i].joint.parent,
                                                   pc.pairs[pc.i].joint.child, fk.matrix))
                             ELSE None
                 /\ pc' = [pc EXCEPT !.i = @ + 1, !.evals = @ + 1]
                 /\ UNCHANGED exc
    /\ UNCHANGED <<robot, build, ctor_exc, base_link, op, arg, ret, ncalls, last_default, xml,
                   _errors>>

\* get_default_cfg up to its first loop (lines 910-911)
CallGetDefaultCfg ==
    /\ pc.at = "idle"
    /\ ctor_exc = NoExc
    /\ op' = "get_default_cfg"
    /\ arg' = Configuration("none", <<>>, <<>>)
    /\ exc' = NoExc
    /\ ret' = <<>>
    /\ pc' = [at |-> "config", i |-> 1, config |-> <<>>, cur |-> None, evals |-> 0]
    /\ UNCHANGED <<robot, build, ctor_exc, cfg, base_link, scene, ncalls, last_default, xml,
                   _errors>>

\* one round of the loop of lines 912-928, one round of the loop of lines
\* 930-933, or the return of line 936
StepGetDefaultCfg ==
    /\ pc.at \in {"config", "mimic"}
    /\ IF pc.at = "config" /\ pc.i > Len(robot.joints)
       THEN pc' = [pc EXCEPT !.at = "mimic", !.i = 1] /\ UNCHANGED <<exc, ret, last_default>>
       ELSE IF pc.at = "config"
       THEN \E r \in {JointDefault(robot.joints[pc.i], pc.cur)} :
            IF r.exc # NoExc
            THEN pc' = Idle /\ exc' = r.exc /\ UNCHANGED <<ret, last_default>>
            ELSE /\ pc' = [pc EXCEPT !.i = @ + 1, !.config = Append(@, r.cfg),
                                     !.cur = Some(r.cfg), !.evals = @ + 1]
                 /\ UNCHANGED <<exc, ret, last_default>>
       ELSE IF pc.i > Len(robot.joints)
       THEN \E r \in {NpArrayFlatten(pc.config, build)} :
            /\ pc' = Idle
            /\ exc' = r.exc
            /\ ret' = r.value
            /\ last_default' = r.value
       ELSE IF robot.joints[pc.i].mimic = None
       THEN pc' = [pc EXCEPT !.i = @ + 1] /\ UNCHANGED <<exc, ret, last_default>>
       ELSE \E index \in {Index(joint_names(robot), robot.joints[pc.i].mimic[1].joint)} :
            IF index = 0
            THEN pc' = Idle /\ exc' = "ValueError" /\ UNCHANGED <<ret, last_default>>
            ELSE /\ pc' = [pc EXCEPT
                              !.i = @ + 1,
                              !.config = [@ EXCEPT ![pc.i] =
                                  [@ EXCEPT ![1] = MimicValue(robot.joints[pc.i].mimic[1],
                                                              pc.config[index][1])]],
                              !.evals = @ + 1]
                 /\ UNCHANGED <<exc, ret, last_default>>
    /\ UNCHANGED <<robot, build, ctor_exc, cfg, base_link, scene, op, arg, ncalls, xml, _errors>>

NextSteps == CallUpdateCfg \/ StepUpdateCfg \/ CallGetDefaultCfg \/ StepGetDefaultCfg

\* a call that was started goes on to its next statement
SpecSteps ==
    InitSteps /\ [][NextSteps]_vars /\ WF_vars(StepUpdateCfg) /\ WF_vars(StepGetDefaultCfg)

-----------------------------------------------------------------------------
(* Properties of the kinematics operations, checked under Spec *)

\* the mimic relation of spec section 3: q(j) = multiplier * q(target) + offset
\* for every mimic joint j of rb, read off the configuration vector c
MimicRelation(rb, c) ==
    \A i \in 1..Len(rb.joints) :
        rb.joints[i].mimic # None =>
            LET m == rb.joints[i].mimic[1]
                t == Index(joint_names(rb), m.joint)
            IN /\ t # 0
               /\ c[i].v = <<m.multiplier * c[t].v[1] + m.offset>>

\* no joint reaches itself through mimic references
RECURSIVE MimicEnds(_, _, _)
MimicEnds(rb, i, fuel) ==
    IF rb.joints[i].mimic = None THEN TRUE
    ELSE IF fuel = 0 THEN FALSE
    ELSE LET t == Index(joint_names(rb), rb.joints[i].mimic[1].joint) IN
         t # 0 /\ MimicEnds(rb, t, fuel - 1)

MimicAcyclic(rb) == \A i \in 1..Len(rb.joints) : MimicEnds(rb, i, Len(rb.joints))

\* C1: after an update_cfg call that returns normally, every mimic joint's
\* value is multiplier * (its target's value) + offset, whatever the order of
\* the joints and whether or not the target is itself a mimic joint.  Stated
\* for the robots whose mimic references end in a non-mimic joint.
C1_MimicRelationAfterUpdate ==
    (op = "update_cfg" /\ exc = NoExc /\ MimicAcyclic(robot)) => MimicRelation(robot, cfg)

\* the number of joints that are neither fixed nor mimic (spec section 3)
NumActuated(rb) ==
    Cardinality({i \in 1..Len(rb.joints) :
                    rb.joints[i].type # "fixed" /\ rb.joints[i].mimic = None})

WrongLength(rb, a) ==
    /\ a.kind = "seq"
    /\ Len(a.values) # Len(rb.joints)
    /\ Len(a.values) # NumActuated(rb)

\* C2: update_cfg called with a sequence whose length is neither the number
\* of joints nor the number of actuated joints raises ValueError.
C2_WrongLengthRaises ==
    (op = "update_cfg" /\ WrongLength(robot, arg)) => exc = "ValueError"

\* a call with a non-empty sequence shorter than both lengths has raised
C2_Witness ==
    /\ op = "update_cfg" /\ WrongLength(robot, arg) /\ exc = "ValueError"
    /\ Len(arg.values) > 0
    /\ Len(arg.values) < NumActuated(robot)

Midpoint(limit) == limit.lower[1] + (limit.upper[1] - limit.lower[1]) \div 2

HasMidpoint(j) == j.type \in {"revolute", "prismatic"} /\ j.limit # None

-----------------------------------------------------------------------------
(* Properties of the base link and of split_along_joints, checked under SpecTree *)

LinkNames(rb) == {rb.links[i].name : i \in 1..Len(rb.links)}

JointsInto(rb, l) == {i \in 1..Len(rb.joints) : rb.joints[i].child = l}

NotAChild(rb) == {l \in LinkNames(rb) : JointsInto(rb, l) = {}}

\* every link except one is the child of exactly one joint
IsTree(rb) ==
    /\ Cardinality(NotAChild(rb)) = 1
    /\ \A l \in LinkNames(rb) \ NotAChild(rb) : Cardinality(JointsInto(rb, l)) = 1

\* C6: for a robot whose joints form a tree over its links, the base link
\* determined at construction is the one link that is no joint's child.
C6_BaseLinkIsRoot ==
    (ctor_exc = NoExc /\ IsTree(robot)) => (base_link # None /\ base_link[1] \in NotAChild(robot))

\* a three-joint tree whose root is not the first link has been constructed
C6_Witness ==
    /\ ctor_exc = NoExc /\ IsTree(robot)
    /\ Len(robot.joints) = 3
    /\ base_link # None /\ base_link[1] # robot.links[1].name
    /\ robot.joints[1].child = "D"

\* the links reachable from l along parent-to-child joint edges, l included
RECURSIVE LinksBelow(_, _)
LinksBelow(rb, ls) ==
    LET more == ls \cup {rb.joints[i].child :
                            i \in {k \in 1..Len(rb.joints) : rb.joints[k].parent \in ls}} IN
    IF more = ls THEN ls ELSE LinksBelow(rb, more)

ModelLinks(entry) == LinkNames(entry.robot)

ModelJoints(entry) == {entry.robot.joints[i].name : i \in 1..Len(entry.robot.joints)}

SplitCalled(joint_type) == op = "split_along_joints" /\ arg.kind = joint_type

\* the robot of the example: links A, B, C, D and joints j1 (fixed, A -> B),
\* j2 (floating, B -> C), j3 (fixed, C -> D)
IsExampleRobot(rb) ==
    /\ [i \in 1..Len(rb.links) |-> rb.links[i].name] = <<"A", "B", "C", "D">>
    /\ [i \in 1..Len(rb.joints) |-> <<rb.joints[i].name, rb.joints[i].type,
                                      rb.joints[i].parent, rb.joints[i].child>>]
         = << <<"j1", "fixed", "A", "B">>, <<"j2", "floating", "B", "C">>,
              <<"j3", "fixed", "C", "D">> >>

\* C8: on the example robot split_along_joints('floating') returns exactly
\* two models: the residual with only link A and joint j1, and the extracted
\* model with links {C, D} and joint j3, paired with the world transform of C.
C8_SplitExample ==
    (SplitCalled("floating") /\ IsExampleRobot(robot)) =>
        /\ exc = NoExc
        /\ Len(ret) = 2
        /\ ModelLinks(ret[1]) = {"A"} /\ ModelJoints(ret[1]) = {"j1"}
        /\ ModelLinks(ret[2]) = {"C", "D"} /\ ModelJoints(ret[2]) = {"j3"}
        /\ ret[2].transform = <<scene[1][<<"A", "B">>], scene[1][<<"B", "C">>]>>

\* C9: split_along_joints returns, for every joint of the chosen type, a
\* sub-model whose links are the links reachable from the joint's child and
\* whose joints are the joints with both ends among them; the residual model
\* is the first entry, paired with the identity transform.
C9_SplitSubModels ==
    \A joint_type \in SplitTypes :
        SplitCalled(joint_type) =>
            /\ exc = NoExc
            /\ Len(ret) >= 1 /\ ret[1].transform = <<>>
            /\ \A i \in 1..Len(robot.joints) :
                robot.joints[i].type = joint_type =>
                    \E n \in 2..Len(ret) :
                        LET below == LinksBelow(robot, {robot.joints[i].child}) IN
                        /\ ModelLinks(ret[n]) = below
                        /\ ModelJoints(ret[n]) =
                             {robot.joints[k].name : k \in {m \in 1..Len(robot.joints) :
                                 robot.joints[m].parent \in below /\ robot.joints[m].child \in below}}

\* C10: for a tree-shaped robot and any joint type, nested joints of the type
\* included, split_along_joints completes and every link of the robot belongs
\* to exactly one returned model.
C10_SplitComposes ==
    \A joint_type \in SplitTypes :
        (SplitCalled(joint_type) /\ IsTree(robot)) =>
            /\ exc = NoExc
            /\ \A l \in LinkNames(robot) :
                Cardinality({n \in 1..Len(ret) : l \in ModelLinks(ret[n])}) = 1

-----------------------------------------------------------------------------
(* Properties of the codec and the validator, checked under SpecCodec *)

\* the documents that use only links with named visuals and collisions, mesh
\* geometry with or without a scale, and joints with limit, dynamics, mimic,
\* calibration and safety_controller
SupportedDocuments ==
    { Document(visual, collision, joint) :
        visual \in {"none", "mesh", "scalar_scale", "vector_scale"},
        collision \in CollisionKinds,
        joint \in {"none", "fixed", "limited", "mimic"} }

ZeroChildDocuments ==
    { Document("zero", collision, joint) :
        collision \in CollisionKinds, joint \in JointKinds }

TwoChildDocuments ==
    { Document("two", collision, joint) :
        collision \in CollisionKinds, joint \in JointKinds }

\* the number of recorded diagnostics equal to d
Recorded(d) == Cardinality({i \in DOMAIN _errors : _errors[i] = d})

\* C7: a document whose <geometry> has zero or two shape children loads
\* without error, and after validate the recorded diagnostics hold exactly
\* one Incomplete diagnostic about the shape for the zero-child geometry and
\* exactly one arity diagnostic for the two-child geometry.
C7_GeometryArity ==
    /\ (xml # None /\ xml[1] \in ZeroChildDocuments \cup TwoChildDocuments)
           => ctor_exc = NoExc
    /\ (op = "validate" /\ xml # None /\ xml[1] \in ZeroChildDocuments)
           => Recorded(Diagnostic("URDFIncompleteError", "shape")) = 1
    /\ (op = "validate" /\ xml # None /\ xml[1] \in TwoChildDocuments)
           => Recorded(Diagnostic("URDFError", "shape")) = 1

\* C21: the codec passes a mesh scale through unchanged: the mesh parsed
\* from what _write_mesh wrote holds the scale the written mesh held, a
\* scalar for a scalar and the same 3-vector for a 3-vector.
C21_ScalePassesThrough ==
    (op = "_parse_mesh" /\ exc = NoExc) => ret.scale = arg.items[1].scale

-----------------------------------------------------------------------------
(* Properties of the validator and the serializer on Document Models built in
   code, checked under SpecModel *)

\* C11: validate never raises: on every Document Model, one with a visual
\* or collision without geometry or a revolute or prismatic joint without
\* limit included, the call returns a verdict.
C11_ValidateNeverRaises ==
    op = "validate" => (exc = NoExc /\ ret \in {Some(TRUE), Some(FALSE)})

HasBrokenLinkReference(rb) ==
    \E i \in 1..Len(rb.joints) :
        \E l \in {rb.joints[i].parent, rb.joints[i].child} :
            l # NoneStr /\ l \notin {rb.links[k].name : k \in 1..Len(rb.links)}

\* C13: validating a Robot in which a joint's parent or child names no
\* existing link records a BrokenReference diagnostic (stated for the calls
\* that return).
C13_BrokenReference ==
    (op = "validate" /\ exc = NoExc /\ HasBrokenLinkReference(robot)) =>
        \E i \in 1..Len(_errors) : _errors[i].class = "URDFBrokenRefError"

\* the diagnostics the joint rules ask for, in the order of the rules
JointRules(j) ==
    LET Incomplete(absent, about) ==
            IF absent THEN <<Diagnostic("URDFIncompleteError", about)>> ELSE <<>>
    IN Incomplete(j.name = NoneStr, "joint name")
       \o Incomplete(j.type = NoneStr, "joint type")
       \o (IF j.type # NoneStr /\ j.type \notin {"revolute", "continuous", "prismatic",
                                                 "fixed", "floating", "planar"}
           THEN <<Diagnostic("URDFAttributeValueError", "joint type")>> ELSE <<>>)
       \o Incomplete(j.parent = NoneStr, "joint parent")
       \o Incomplete(j.child = NoneStr, "joint child")
       \o (IF j.type \in {"revolute", "prismatic"}
           THEN IF j.limit = None THEN Incomplete(TRUE, "joint limit")
                ELSE Incomplete(j.limit[1].effort = None, "limit effort")
                     \o Incomplete(j.limit[1].velocity = None, "limit velocity")
           ELSE <<>>)

RECURSIVE AllJointRules(_, _)
AllJointRules(joints, i) ==
    IF i > Len(joints) THEN <<>> ELSE JointRules(joints[i]) \o AllJointRules(joints, i + 1)

\* the diagnostics of errs from number i on
AboutJoints(errs, i) ==
    [k \in 1..(Len(errs) - i + 1) |-> errs[k + i - 1]]

\* the index of the first diagnostic about a joint or its limit, Len + 1 if none
RECURSIVE FirstAboutJoint(_, _)
FirstAboutJoint(errs, i) ==
    IF i > Len(errs) THEN i
    ELSE IF errs[i].about \in {"joint name", "joint type", "joint parent", "joint child",
                               "joint limit", "limit effort", "limit velocity"}
    THEN i ELSE FirstAboutJoint(errs, i + 1)

\* every visual and collision of rb has a geometry, so that the walk reaches the joints
GeometriesPresent(rb) ==
    \A i \in 1..Len(rb.links) :
        /\ \A k \in 1..Len(rb.links[i].visuals) : rb.links[i].visuals[k].geometry # None
        /\ \A k \in 1..Len(rb.links[i].collisions) : rb.links[i].collisions[k].geometry # None

\* C14: validating a joint records an Incomplete diagnostic for each of
\* name, type, parent and child that is absent, an AttributeValue diagnostic
\* for a type outside the allowed ones and, for revolute and prismatic joints
\* only, an Incomplete diagnostic for an absent limit, effort or velocity;
\* a joint that satisfies the rules yields none.
C14_JointDiagnostics ==
    (op = "validate" /\ GeometriesPresent(robot)) =>
        AboutJoints(_errors, FirstAboutJoint(_errors, 1)) = AllJointRules(robot.joints, 1)

\* a prismatic joint without name and parent, whose limit has no effort, was validated
C14_Witness ==
    /\ op = "validate" /\ exc = NoExc /\ GeometriesPresent(robot)
    /\ robot.joints[2].type = "prismatic" /\ robot.joints[2].name = NoneStr
    /\ robot.joints[2].parent = NoneStr
    /\ robot.joints[2].limit # None /\ robot.joints[2].limit[1].effort = None
    /\ Len(_errors) = 3

-----------------------------------------------------------------------------
(* Properties of the filename handlers, checked under SpecResolver *)

\* the candidate file names of a list of handlers for one reference
CandidateNames(fname, filename_handlers) ==
    [i \in 1..Len(filename_handlers) |-> Call(filename_handlers[i], fname).value]

\* the position of the first candidate that is a file, 0 when there is none
FirstFile(candidates, files) ==
    LET hits == {i \in 1..Len(candidates) : candidates[i] \in files}
    IN IF hits = {} THEN 0 ELSE CHOOSE i \in hits : \A k \in hits : i <= k

\* C15: filename_handler_meta returns the first candidate, in list order, that
\* is an existing file and hands no later candidate to the file system; when
\* no candidate is an existing file, the empty list included, it returns its
\* input unchanged.
C15_FirstExistingCandidate ==
    (op = "filename_handler_meta" /\ exc = NoExc) =>
        LET candidates == CandidateNames(arg.fname, arg.filename_handlers)
            first == FirstFile(candidates, build.isfile)
        IN IF first = 0
           THEN ret.value = arg.fname /\ ret.checked = candidates
           ELSE ret.value = candidates[first] /\ ret.checked = SubSeq(candidates, 1, first)

\* two candidates that are different existing files: the first is returned
\* and the second never looked at
C15_Witness ==
    /\ op = "filename_handler_meta"
    /\ exc = NoExc
    /\ Len(arg.filename_handlers) = 2
    /\ LET candidates == CandidateNames(arg.fname, arg.filename_handlers)
       IN /\ candidates[1] \in build.isfile
          /\ candidates[2] \in build.isfile
          /\ candidates[1] # candidates[2]
          /\ ret.value = candidates[1]
          /\ Len(ret.checked) = 1

\* C16: the handler a loaded URDF has by default never raises, whatever the
\* mesh reference (the reference of a mesh parsed without filename included)
\* and whatever files exist; it returns an existing file or, when nothing
\* resolves, the reference it was given.
C16_ResolverNeverRaises ==
    op = "filename_handler_magic" =>
        /\ exc = NoExc
        /\ ret.value \in build.isfile \/ ret.value = arg.fname

\* a reference without its directive and, for a package reference, without
\* the package segment
StrippedReference(fname) ==
    PathStr(fname.scheme # "package" /\ fname.root,
            IF fname.scheme = "package" /\ fname.parts # <<>> THEN Tail(fname.parts)
            ELSE fname.parts)

\* a directory without its last i segments
Trimmed(dir, i) == PathStr(dir.root, SubSeq(dir.parts, 1, Len(dir.parts) - i))

\* the depth of a document: the number of directories named on its path
Depth(urdf_fname) == Len(urdf_fname.parts) - 1

\* C17: the candidates of the default handler are the mesh directory joined
\* with the stripped reference, then exactly k candidates for a document at
\* depth k, one per ancestor directory from the nearest to the farthest, each
\* joined with the stripped reference.  (All candidates are looked at when
\* none of them is a file.)
C17_CandidateList ==
    (/\ op = "filename_handler_magic"
     /\ exc = NoExc
     /\ \A i \in 1..Len(ret.checked) : ret.checked[i] \notin build.isfile) =>
        LET mesh_dir == os_path_dirname(arg.urdf_fname)
            stripped == StrippedReference(arg.fname)
        IN ret.checked =
               <<os_path_join(mesh_dir, stripped)>>
               \o [i \in 1..Depth(arg.urdf_fname) |->
                      os_path_join(Trimmed(mesh_dir, i), stripped)]

-----------------------------------------------------------------------------
(* Properties of parsing and loading documents with absent or inconsistent
   parts, checked under SpecDefect *)

\* a <parent> or <child> element with its link attribute
HasLinkReference(joint, tag) ==
    /\ Find(joint, tag) # None
    /\ "link" \in DOMAIN Find(joint, tag)[1].attrib

\* the document lacks the name of the robot, of a link or of a joint, or a
\* joint's reference to its parent or child link
LoadBearingAbsent(doc) ==
    \/ "name" \notin DOMAIN doc.attrib
    \/ \E i \in 1..Len(doc.children) :
        LET e == doc.children[i]
        IN \/ e.tag \in {"link", "joint"} /\ "name" \notin DOMAIN e.attrib
           \/ e.tag = "joint" /\ ~(HasLinkReference(e, "parent") /\ HasLinkReference(e, "child"))

\* C18: parsing fails with the Malformed Document error exactly when the
\* name of the robot, of a link or of a joint, or a joint's parent or child
\* link reference (the element or its link attribute) is absent; whatever
\* else is absent, parsing returns a Robot.
C18_ParseFailsOnLoadBearing ==
    op = "_parse_robot" =>
        IF LoadBearingAbsent(xml[1]) THEN exc = "URDFMalformedError"
        ELSE exc = NoExc /\ ret # None

\* C19: a document whose load-bearing attributes are all present is loaded
\* with default options into a URDF object without an exception, whatever
\* other defect it has (a child that names no link, two joints with one child,
\* a missing or unknown joint type, a limit without lower and upper, a mimic
\* that names no joint).
C19_LoadsDespiteDefects ==
    (op = "load" /\ ~LoadBearingAbsent(xml[1])) => (exc = NoExc /\ robot # NoRobot)

-----------------------------------------------------------------------------
(* Properties of the serializer on Document Models built in code, checked
   under SpecModel *)

\* the fields that are not optional: the names, and a joint's parent and child
RequiredFieldsPresent(rb) ==
    /\ rb.name # NoneStr
    /\ \A i \in 1..Len(rb.links) : rb.links[i].name # NoneStr
    /\ \A i \in 1..Len(rb.joints) :
        /\ rb.joints[i].name # NoneStr
        /\ rb.joints[i].parent # NoneStr
        /\ rb.joints[i].child # NoneStr

\* C20: write_xml raises no exception on a Robot whose optional fields (the
\* joint type, axis, limit and its members, a visual's geometry, a texture's
\* filename, an inertial's members and the others) are absent.
C20_WriteOmitsAbsent ==
    (op = "write_xml" /\ RequiredFieldsPresent(robot)) => exc = NoExc

-----------------------------------------------------------------------------
(* Further properties of update_cfg, get_default_cfg and split_along_joints,
   checked under Spec *)

\* the positions of the joints that are neither fixed nor mimic, in joint order
ActuatedPositions(rb) ==
    SelectSeq([i \in 1..Len(rb.joints) |-> i],
              LAMBDA i : rb.joints[i].type # "fixed" /\ rb.joints[i].mimic = None)

HasUnresolvableMimic(rb) ==
    \E i \in 1..Len(rb.joints) :
        /\ rb.joints[i].mimic # None
        /\ \A k \in 1..Len(rb.joints) : rb.joints[k].name # rb.joints[i].mimic[1].joint

\* an input update_cfg accepts: a sequence of full or actuated length, or a
\* dict of joint names
ValidInput(rb, a) ==
    \/ a.kind = "seq" /\ ~WrongLength(rb, a)
    \/ a.kind = "dict" /\ \A i \in 1..Len(a.items) :
                              \E k \in 1..Len(rb.joints) : rb.joints[k].name = a.items[i][1]

\* C23: for a robot in which a mimic names no joint, and whose joints all
\* hold one value, construction and update_cfg with a valid input raise no
\* exception.
C23_UnresolvableMimicTolerated ==
    (/\ HasUnresolvableMimic(robot)
     /\ \A i \in 1..Len(robot.joints) : robot.joints[i].type # "floating") =>
        /\ ctor_exc = NoExc
        /\ (op = "update_cfg" /\ ValidInput(robot, arg)) => exc = NoExc

-----------------------------------------------------------------------------
(* Properties of the configuration vector, checked under Spec *)

\* C25: after construction and after every update_cfg call the configuration
\* vector has exactly one slot per joint, whatever the types of the joints
\* (a floating joint's six values are one slot).
C25_OneSlotPerJoint ==
    ctor_exc = NoExc => Len(cfg) = Len(robot.joints)

\* a dict one of whose keys is no joint name of the robot
UnknownName(rb, a) ==
    /\ a.kind = "dict"
    /\ \E i \in 1..Len(a.items) :
           \A k \in 1..Len(rb.joints) : rb.joints[k].name # a.items[i][1]

\* C26: an update_cfg call that fails because the sequence has a wrong
\* length, because the input is neither a mapping nor a sequence, or because
\* a key of the mapping is no joint name leaves the configuration vector and
\* the transforms of the scene as they were, whatever the other entries are.
C26_FailedUpdateChangesNothing ==
    [][(/\ op' = "update_cfg"
        /\ ncalls' = ncalls + 1
        /\ WrongLength(robot, arg') \/ arg'.kind = "other" \/ UnknownName(robot, arg'))
       => (exc' # NoExc /\ cfg' = cfg /\ scene' = scene)]_vars

\* a second call has failed on a dict whose first key is a joint of the
\* robot and whose second key is not, after a first call that set that joint
C26_Witness ==
    /\ op = "update_cfg" /\ exc = "KeyError"
    /\ ncalls = 2
    /\ Len(arg.items) = 2
    /\ arg.items[1][1] = robot.joints[1].name
    /\ arg.items[2][1] = UnknownJoint
    /\ robot.joints[1].mimic = None
    /\ cfg[1] # Float(arg.items[1][2])

\* the slots update_cfg may write for the input a: those of the joints a
\* dict names or a sequence covers, and those of the mimic joints
Touched(rb, a) ==
    { i \in 1..Len(rb.joints) :
        \/ rb.joints[i].mimic # None
        \/ a.kind = "dict" /\ \E k \in 1..Len(a.items) : a.items[k][1] = rb.joints[i].name
        \/ a.kind = "seq" /\ Len(a.values) = Len(rb.joints)
        \/ a.kind = "seq" /\ rb.joints[i].type # "fixed" }

\* C27: update_cfg with a mapping changes only the slots of the joints the
\* mapping names and of the mimic joints, and with a sequence of actuated
\* length it leaves the slots of the fixed joints without mimic unchanged;
\* every other slot of the configuration vector holds what it held.
C27_UpdateFrame ==
    [][(op' = "update_cfg" /\ ncalls' = ncalls + 1) =>
          /\ Len(cfg') = Len(cfg)
          /\ \A i \in 1..Len(cfg) : i \notin Touched(robot, arg') => cfg'[i] = cfg[i]]_vars

\* the second call named the middle joint of three joints without mimic:
\* its slot holds the new value, the others what the first call gave them
C27_Witness ==
    /\ op = "update_cfg" /\ exc = NoExc
    /\ ncalls = 2
    /\ arg.kind = "dict"
    /\ Len(arg.items) = 1
    /\ Len(robot.joints) = 3
    /\ arg.items[1][1] = robot.joints[2].name
    /\ \A i \in 1..3 : robot.joints[i].mimic = None
    /\ cfg[2] = Float(arg.items[1][2])
    /\ cfg[1] # last_default[1]
    /\ cfg[3] # last_default[3]

\* an input of full or of actuated length
FullInput(rb, a) == a.kind = "seq" /\ ~WrongLength(rb, a)

\* the joint without mimic at the end of joint i's mimic references
RECURSIVE MimicEnd(_, _, _)
MimicEnd(rb, i, fuel) ==
    IF rb.joints[i].mimic = None \/ fuel = 0 THEN i
    ELSE MimicEnd(rb, Index(joint_names(rb), rb.joints[i].mimic[1].joint), fuel - 1)

\* the slots whose value the input a determines: all for a sequence of full
\* length, otherwise those that do not follow a fixed joint
Determined(rb, a) ==
    { i \in Touched(rb, a) :
        \/ Len(a.values) = Len(rb.joints)
        \/ rb.joints[MimicEnd(rb, i, Len(rb.joints))].type # "fixed" }

\* C28: for a sequence of full or of actuated length, a second update_cfg
\* call with the same input leaves the configuration vector the first call
\* left, and the slots the input determines do not depend on what the vector
\* held before: they are what the same call gives on the default
\* configuration.  Stated for the robots whose mimic references end in a
\* non-mimic joint.
C28_UpdateIdempotent ==
    [][(/\ op' = "update_cfg" /\ ncalls' = ncalls + 1 /\ exc' = NoExc
        /\ FullInput(robot, arg')
        /\ MimicAcyclic(robot)) =>
          /\ (op = "update_cfg" /\ exc = NoExc /\ arg = arg') => cfg' = cfg
          /\ \A i \in Determined(robot, arg') :
                cfg'[i] = update_cfg(robot, build, last_default, scene, arg').cfg[i]]_vars

-----------------------------------------------------------------------------
(* The frame of split_along_joints, checked under Spec *)

-----------------------------------------------------------------------------
(* The default configuration computed at construction, checked under Spec *)

\* the vector c has one number for each joint of rb
OneNumberPerJoint(rb, c) ==
    /\ Len(c) = Len(rb.joints)
    /\ \A i \in 1..Len(c) : c[i].k = "float"

\* C30: in the configuration vector a successful construction leaves, every
\* mimic joint holds multiplier * (its target's value in that vector) +
\* offset, whatever the order of the joints and also when the target is
\* itself a mimic joint.  Stated for the robots whose mimic references end in
\* a non-mimic joint and whose vector has one number per joint.
C30_DefaultMimicRelation ==
    (/\ op = "__init__" /\ ctor_exc = NoExc
     /\ MimicAcyclic(robot)
     /\ OneNumberPerJoint(robot, cfg)) => MimicRelation(robot, cfg)

-----------------------------------------------------------------------------
(* Termination of update_cfg and get_default_cfg, checked under SpecSteps *)

\* C24: a call of update_cfg or get_default_cfg that was started evaluates
\* joints at most twice the number of joints times and ends, on every robot,
\* one whose mimic references form a cycle or name the joint itself included.
C24_CallsTerminate ==
    /\ [](pc.at # "idle" => pc.evals <= 2 * Len(robot.joints))
    /\ (pc.at # "idle") ~> (pc.at = "idle")

\* update_cfg has returned on a robot whose two joints mimic each other
C24_Witness ==
    /\ pc.at = "idle"
    /\ op = "update_cfg"
    /\ exc = NoExc
    /\ arg.kind = "seq"
    /\ Len(arg.values) = Len(robot.joints)
    /\ \A i \in 1..Len(robot.joints) :
        /\ robot.joints[i].mimic # None
        /\ robot.joints[i].mimic[1].joint # robot.joints[i].name

====
